---- MODULE Spec2Model ----
(***************************************************************************)
(* A model of the two-player Battleship server: the frame codec            *)
(* (src/protocol.py), the board rules and the match loop                   *)
(* (src/battleship.py) and the connection handling, lobby and match        *)
(* supervisor (src/server.py, the definitions in force: lines 1000-1285    *)
(* and the second two_player_game at line 703).                            *)
(***************************************************************************)
EXTENDS Integers, Sequences, FiniteSets, TLC

(***************************************************************************)
(* Bounds of the model                                                     *)
(***************************************************************************)
\* connections the server accepts in one run
MaxConns == 3
\* connections on top of these, used only where clients arrive in a burst:
\* within one wait of lobby_manager, or twice under the name of a lost player
MaxBurst == 1
\* calls of two_player_game in one run
MaxInst == 2
\* client events that leave the straight line of play (errors, misses,
\* repeated shots, chat, quit, corrupt frames, closing the connection)
MaxDev == 1
\* writes to a connection the client has closed that still succeed before
\* the reset arrives
MaxFail == 2
\* display names the clients choose from
NumNames == 2
\* longest plaintext payload the codec is exercised on
MaxPayloadLen == 2
\* ships of the catalog a match is played with, taken from its head
MaxShips == 2
\* calls of two_player_game in which the clients answer the prompts
MaxMatches == 1

(***************************************************************************)
(* Program constants                                                       *)
(***************************************************************************)
BOARD_SIZE == 10
HEADER_SIZE == 7
CHECKSUM_SIZE == 4
NONCE_SIZE == 16
PKT_TYPE_GAME == 1
PKT_TYPE_CHAT == 2
RECONNECT_TIMEOUT == 60
\* the select() timeout of the play loop, in seconds
TURN_TIMEOUT == 30
\* one step of the model's clock, in seconds
TickSeconds == RECONNECT_TIMEOUT

None == "None"
\* None where a dict is looked for, where a time is, where a name of a ship or a cell is
NoneRec == [none |-> TRUE]
NoTime == -1
NoName == <<>>

(***************************************************************************)
(* Generic helpers                                                         *)
(***************************************************************************)
Min(a, b) == IF a < b THEN a ELSE b

RECURSIVE SumSeq(_)
SumSeq(s) == IF s = <<>> THEN 0 ELSE Head(s) + SumSeq(Tail(s))

(***************************************************************************)
(* Frame codec, src/protocol.py                                            *)
(***************************************************************************)
\* An unsigned 32-bit value is kept as its two 16-bit halves <<high, low>>,
\* so that every value up to 2^32 - 1 can be written down.
\* U32(n): the value n % 2^32 of a natural number n
U32(n) == << (n \div 65536) % 65536, n % 65536 >>
\* struct.pack("!I", w): four bytes, big-endian
PackU32(w) == << w[1] \div 256, w[1] % 256, w[2] \div 256, w[2] % 256 >>
UnpackU32(b) == << b[1] * 256 + b[2], b[3] * 256 + b[4] >>
\* struct.pack("!H", n)
PackU16(n) == << (n \div 256) % 256, n % 256 >>
UnpackU16(b) == b[1] * 256 + b[2]
\* struct.pack(HEADER_FORMAT, seq, pkt_type, length)
PackHeader(seq, pkt_type, length) ==
    PackU32(seq) \o << pkt_type % 256 >> \o PackU16(length)

\* bitwise exclusive or of two bytes
RECURSIVE XorBits(_, _, _)
XorBits(a, b, k) ==
    IF k = 0 THEN 0
    ELSE (((a % 2) + (b % 2)) % 2) + 2 * XorBits(a \div 2, b \div 2, k - 1)
XorByte(a, b) == XorBits(a, b, 8)

\* The AES-256 keystream of CTR mode for SHARED_KEY: byte i of the stream
\* that starts at counter block `nonce`.  AES itself is not modelled; the
\* stand-in keeps what CTR mode relies on, a stream fixed by (key, nonce).
KeyStream(nonce, i) == (SumSeq(nonce) * 31 + nonce[1] * 7 + i * 101 + 89) % 256

_encrypt(nonce, plaintext) ==
    [i \in 1..Len(plaintext) |-> XorByte(plaintext[i], KeyStream(nonce, i))]

decrypt_shifted(nonce, ciphertext) ==
    [i \in 1..Len(ciphertext) |-> XorByte(ciphertext[i], KeyStream(nonce, i + 1))]

_decrypt(nonce, ciphertext) ==
    [i \in 1..Len(ciphertext) |-> XorByte(ciphertext[i], KeyStream(nonce, i))]

\* sum(data) % (2**32)
calc_checksum(data) == U32(SumSeq(data))

\* build_packet; the nonce os.urandom draws is a parameter
build_packet(seq, pkt_type, payload, nonce) ==
    LET encrypted_payload == _encrypt(nonce, payload)
        full_payload == nonce \o encrypted_payload
        header == PackHeader(seq, pkt_type, Len(full_payload))
        body == header \o full_payload
    IN  body \o PackU32(calc_checksum(body))

ParseError(why) == [ok |-> FALSE, err |-> why]

parse_packet(packet) ==
    IF Len(packet) < HEADER_SIZE + NONCE_SIZE + CHECKSUM_SIZE
    THEN ParseError("Packet too short")
    ELSE
    LET header == SubSeq(packet, 1, HEADER_SIZE)
        seq == UnpackU32(SubSeq(header, 1, 4))
        pkt_type == header[5]
        length == UnpackU16(SubSeq(header, 6, 7))
    IN  IF Len(packet) < HEADER_SIZE + length + CHECKSUM_SIZE
        THEN ParseError("Packet shorter than specified by header")
        ELSE
        LET full_payload_with_nonce ==
                SubSeq(packet, HEADER_SIZE + 1, HEADER_SIZE + length)
            checksum_bytes ==
                SubSeq(packet, HEADER_SIZE + length + 1,
                       HEADER_SIZE + length + CHECKSUM_SIZE)
            body == header \o full_payload_with_nonce
        IN  IF calc_checksum(body) # UnpackU32(checksum_bytes)
            THEN ParseError("Checksum mismatch")
            ELSE IF Len(full_payload_with_nonce) < NONCE_SIZE
            THEN ParseError("payload too short to contain nonce")
            ELSE [ok |-> TRUE, seq |-> seq, pkt_type |-> pkt_type,
                  payload |-> _decrypt(SubSeq(full_payload_with_nonce, 1, NONCE_SIZE),
                                       SubSeq(full_payload_with_nonce, NONCE_SIZE + 1,
                                              Len(full_payload_with_nonce)))]

(***************************************************************************)
(* Text.  A payload is the list of its whitespace-separated words          *)
(* (str.split()), a word the list of its characters.                       *)
(***************************************************************************)
UPPER == <<"A","B","C","D","E","F","G","H","I","J","K","L","M",
           "N","O","P","Q","R","S","T","U","V","W","X","Y","Z">>
LOWER == <<"a","b","c","d","e","f","g","h","i","j","k","l","m",
           "n","o","p","q","r","s","t","u","v","w","x","y","z">>
DIGITS == <<"0","1","2","3","4","5","6","7","8","9">>

IsIn(ch, tab) == \E i \in DOMAIN tab : tab[i] = ch
IndexOf(ch, tab) == CHOOSE i \in DOMAIN tab : tab[i] = ch
\* str.isalpha / str.isdigit / str.upper / str.lower
isalpha(ch) == IsIn(ch, UPPER) \/ IsIn(ch, LOWER)
isdigit(w) == w # <<>> /\ \A i \in DOMAIN w : IsIn(w[i], DIGITS)
upper(w) == [i \in DOMAIN w |->
               IF IsIn(w[i], LOWER) THEN UPPER[IndexOf(w[i], LOWER)] ELSE w[i]]
lower(w) == [i \in DOMAIN w |->
               IF IsIn(w[i], UPPER) THEN LOWER[IndexOf(w[i], UPPER)] ELSE w[i]]
\* int(col_digits)
RECURSIVE int(_)
int(w) == IF w = <<>> THEN 0
          ELSE 10 * int(SubSeq(w, 1, Len(w) - 1)) + (IndexOf(w[Len(w)], DIGITS) - 1)
\* str(n) for 0 <= n <= 99
str(n) == IF n < 10 THEN <<DIGITS[n + 1]>>
          ELSE <<DIGITS[(n \div 10) + 1], DIGITS[(n % 10) + 1]>>

W_place == <<"p","l","a","c","e">>
W_PLACE == <<"P","L","A","C","E">>
W_FIRE == <<"F","I","R","E">>
W_fire == <<"f","i","r","e">>
W_quit == <<"q","u","i","t">>
W_move == <<"m","o","v","e">>
W_h == <<"h">>
W_H == <<"H">>
W_v == <<"v">>
W_x == <<"x">>

(***************************************************************************)
(* Board rules, src/battleship.py                                          *)
(***************************************************************************)
\* the catalog SHIPS of battleship.py
Catalog == << [name |-> <<"C","a","r","r","i","e","r">>, size |-> 5],
              [name |-> <<"B","a","t","t","l","e","s","h","i","p">>, size |-> 4],
              [name |-> <<"C","r","u","i","s","e","r">>, size |-> 3],
              [name |-> <<"S","u","b","m","a","r","i","n","e">>, size |-> 3],
              [name |-> <<"D","e","s","t","r","o","y","e","r">>, size |-> 2] >>
\* the ships of a match: the catalog, cut to the bound of the model
SHIPS == SubSeq(Catalog, 1, Min(MaxShips, Len(Catalog)))

\* Board.__init__: hidden_grid holds the cells that are not '.'; display_grid
\* is hidden_grid without its 'S' cells and is not kept apart
NewBoard == [size |-> BOARD_SIZE, hidden_grid |-> <<>>, placed_ships |-> <<>>]

GridAt(grid, row, col) ==
    IF <<row, col>> \in DOMAIN grid THEN grid[<<row, col>>] ELSE "."
SetCells(grid, cells, mark) ==
    [x \in DOMAIN grid \cup cells |-> IF x \in cells THEN mark ELSE grid[x]]

ShipCells(row, col, ship_size, orientation) ==
    IF orientation = 0
    THEN {<<row, c>> : c \in col..(col + ship_size - 1)}
    ELSE {<<r, col>> : r \in row..(row + ship_size - 1)}

can_place_ship(board, row, col, ship_size, orientation) ==
    IF orientation = 0
    THEN /\ ~(col + ship_size > board.size)
         /\ \A c \in col..(col + ship_size - 1) : GridAt(board.hidden_grid, row, c) = "."
    ELSE /\ ~(row + ship_size > board.size)
         /\ \A r \in row..(row + ship_size - 1) : GridAt(board.hidden_grid, r, col) = "."

\* do_place_ship followed by the placed_ships.append of its callers
do_place_ship(board, row, col, ship_size, orientation, ship_name) ==
    LET occupied == ShipCells(row, col, ship_size, orientation)
    IN  [board EXCEPT
           !.hidden_grid = SetCells(@, occupied, "S"),
           !.placed_ships = Append(@, [name |-> ship_name, positions |-> occupied])]

\* _mark_hit_and_check_sunk: the first ship that holds the cell loses it
FirstShipAt(board, cell) ==
    LET idx == {i \in DOMAIN board.placed_ships : cell \in board.placed_ships[i].positions}
    IN  IF idx = {} THEN 0 ELSE CHOOSE i \in idx : \A j \in idx : i <= j

\* a fire_at that marks the grid and leaves the ships as they are
fire_at_grid_only(board, row, col) ==
    LET cell == GridAt(board.hidden_grid, row, col)
        k == FirstShipAt(board, <<row, col>>)
    IN  IF cell = "S"
        THEN LET marked == [board EXCEPT !.hidden_grid = SetCells(@, {<<row, col>>}, "X")]
                 after == marked
                 sunk == IF k # 0 /\ after.placed_ships[k].positions = {}
                         THEN after.placed_ships[k].name ELSE NoName
             IN  [board |-> after, result |-> "hit", sunk_name |-> sunk]
        ELSE IF cell = "."
        THEN [board |-> [board EXCEPT !.hidden_grid = SetCells(@, {<<row, col>>}, "o")],
              result |-> "miss", sunk_name |-> NoName]
        ELSE [board |-> board, result |-> "already_shot", sunk_name |-> NoName]

\* fire_at: the board after the shot, the result and the name of a sunk ship
fire_at(board, row, col) ==
    LET cell == GridAt(board.hidden_grid, row, col)
        k == FirstShipAt(board, <<row, col>>)
    IN  IF cell = "S"
        THEN LET marked == [board EXCEPT !.hidden_grid = SetCells(@, {<<row, col>>}, "X")]
                 after == IF k = 0 THEN marked
                          ELSE [marked EXCEPT !.placed_ships[k].positions = @ \ {<<row, col>>}]
                 sunk == IF k # 0 /\ after.placed_ships[k].positions = {}
                         THEN after.placed_ships[k].name ELSE NoName
             IN  [board |-> after, result |-> "hit", sunk_name |-> sunk]
        ELSE IF cell = "."
        THEN [board |-> [board EXCEPT !.hidden_grid = SetCells(@, {<<row, col>>}, "o")],
              result |-> "miss", sunk_name |-> NoName]
        ELSE [board |-> board, result |-> "already_shot", sunk_name |-> NoName]

all_ships_sunk(board) ==
    \A i \in DOMAIN board.placed_ships : board.placed_ships[i].positions = {}

CoordError(why) == [ok |-> FALSE, err |-> why]

parse_coordinate(coord_str) ==
    LET s == upper(coord_str)
    IN  IF Len(s) < 2 THEN CoordError("Coordinate too short")
        ELSE IF ~isalpha(s[1]) \/ ~isdigit(Tail(s))
        THEN CoordError("Invalid coordinate format")
        ELSE LET row == IndexOf(s[1], UPPER) - 1
                 col == int(Tail(s)) - 1
             IN  IF row < 0 \/ row >= BOARD_SIZE \/ col < 0 \/ col >= BOARD_SIZE
                 THEN CoordError("Coordinate out of bounds")
                 ELSE [ok |-> TRUE, row |-> row, col |-> col]

\* parse_fire_message: the coordinate word, or an error
parse_fire_message(msg) ==
    IF Len(msg) = 2 /\ upper(msg[1]) = W_FIRE
    THEN [ok |-> TRUE, coord |-> msg[2]]
    ELSE [ok |-> FALSE, err |-> "Invalid FIRE message format"]

\* the coordinate text of a cell, e.g. (2, 9) -> C10
CoordText(row, col) == <<UPPER[row + 1]>> \o str(col + 1)

(***************************************************************************)
(* Server state, src/server.py                                             *)
(***************************************************************************)
VARIABLES
    sock,               \* per connection: the socket (open/closed by the server,
                        \* the client's end, the packets the client has sent)
    mgr,                \* per connection: its game_manager thread
    waiting_lines,      \* the lobby queue
    active_connections, \* the chat broadcast set
    player_sessions,    \* username -> session
    game_running,       \* the game_running event
    games,              \* game_key -> game state
    heap,               \* the Board objects games and threads refer to
    inst,               \* the calls of two_player_game, each with its game thread
    devs,               \* client packets off the straight line so far
    emitted,            \* per connection: what the last step wrote to it
    actor,              \* the thread that took the last step
    sentBefore,         \* per connection: the notable frames written before the last step
    seqBefore,          \* per connection: the sequence number last written before the last step
    dropped,            \* username -> the last loss of that player's connection in a match
    codec               \* the frame codec exercised on its own

vars == << sock, mgr, waiting_lines, active_connections, player_sessions,
           game_running, games, heap, inst, devs, emitted, actor, sentBefore,
           seqBefore, dropped, codec >>

NameTab == <<"a", "b", "c", "d", "e">>
\* the names of the players that queue first, and one more for a newcomer
FirstNames == {NameTab[i] : i \in 1..NumNames}
Newcomer == NameTab[NumNames + 1]
Names == FirstNames \cup {Newcomer}
NameIdx(n) == CHOOSE i \in DOMAIN NameTab : NameTab[i] = n
Conns == 1..(MaxConns + MaxBurst)
Insts == 1..MaxInst
BoardIds == 1..(2 * MaxInst)

\* game_key = tuple(sorted([username1, username2]))
game_key(u1, u2) == IF NameIdx(u1) <= NameIdx(u2) THEN <<u1, u2>> ELSE <<u2, u1>>
Keys == {game_key(x, y) : x \in Names, y \in Names}

\* ticks after which the reconnect window has run out, and ticks that
\* outlast the 30 s of a turn
ReconnectTicks == RECONNECT_TIMEOUT \div TickSeconds
TurnTicks == (TURN_TIMEOUT + TickSeconds - 1) \div TickSeconds
\* a write limit that is no limit
Unlimited == MaxFail + 1

W_USERNAME == <<"U","S","E","R","N","A","M","E">>

GamePkt(payload) == [type |-> PKT_TYPE_GAME, payload |-> payload]
ChatPkt(payload) == [type |-> PKT_TYPE_CHAT, payload |-> payload]
\* a frame parse_packet rejects (recv_packet returns None, None, None)
BadPkt == [type |-> -1, payload |-> <<>>]

FreshInst ==
    [st |-> "unused", by |-> 0, username1 |-> None, username2 |-> None,
     conn1 |-> 0, conn2 |-> 0, event |-> FALSE, seq_send1 |-> 0, seq_send2 |-> 0,
     board1 |-> 0, board2 |-> 0, turn |-> 0, placed1 |-> FALSE, placed2 |-> FALSE,
     disconnect_timeout_started |-> FALSE, disconnect_start_time |-> 0,
     disconnected_user_monitor |-> None, ended |-> "",
     gt |-> "none", t |-> <<"none", "none">>, ship_idx |-> <<0, 0>>,
     moves |-> 0, turn_age |-> 0]

CodecIdle == [stage |-> "idle"]

InitServer ==
    /\ sock = [c \in Conns |-> [st |-> "unused", peer |-> "up", inbox |-> <<>>, left |-> 0]]
    /\ mgr = [c \in Conns |-> [pc |-> "none", username |-> None]]
    /\ waiting_lines = <<>>
    /\ active_connections = {}
    /\ player_sessions = [n \in Names |-> NoneRec]
    /\ game_running = FALSE
    /\ games = [k \in Keys |-> NoneRec]
    /\ heap = [b \in BoardIds |-> NewBoard]
    /\ inst = [j \in Insts |-> FreshInst]
    /\ devs = 0
    /\ emitted = [c \in Conns |-> <<>>]
    /\ actor = <<"init", 0>>
    /\ sentBefore = [c \in Conns |-> {}]
    /\ seqBefore = [c \in Conns |-> -1]
    /\ dropped = [n \in Names |-> NoneRec]

Init == InitServer /\ codec = CodecIdle

(***************************************************************************)
(* Writing frames.  A step's writes are a list of operations carried out   *)
(* in order; a write to a connection whose client has left succeeds until  *)
(* the reset arrives (lim) and fails from then on.                         *)
(***************************************************************************)
Frame(tag, arg, seq, n, typ, src) ==
    [tag |-> tag, arg |-> arg, seq |-> seq, n |-> n, typ |-> typ, src |-> src]

\* via: "s1"/"s2" send1/send2 of a two_player_game call (its counter gives the
\* sequence number), "pkt" send_packet with the given number, "raw" text
\* written through makefile('w'), "chat" the packet of broadcast_chat.
\* soft: the failure is caught around this one write and the step goes on.
Op(to, via, tag, arg, n, seq, soft, src) ==
    [to |-> to, via |-> via, tag |-> tag, arg |-> arg, n |-> n, seq |-> seq,
     soft |-> soft, src |-> src]

IO0(j) ==
    [seq1 |-> IF j = 0 THEN 0 ELSE inst[j].seq_send1,
     seq2 |-> IF j = 0 THEN 0 ELSE inst[j].seq_send2,
     used |-> [c \in Conns |-> 0], out |-> [c \in Conns |-> <<>>],
     failed |-> FALSE]

WriteOK(io, op, lim) ==
    sock[op.to].st = "open" /\ (lim[op.to] = Unlimited \/ io.used[op.to] < lim[op.to])

Exec1(io, op, lim) ==
    IF WriteOK(io, op, lim)
    THEN LET seq == CASE op.via = "s1" -> io.seq1
                      [] op.via = "s2" -> io.seq2
                      [] op.via = "raw" -> 0
                      [] OTHER -> op.seq
             typ == CASE op.via = "raw" -> "RAW"
                      [] op.via = "chat" -> "CHAT"
                      [] OTHER -> "GAME"
         IN  [io EXCEPT
                !.out[op.to] = Append(@, Frame(op.tag, op.arg, seq, op.n, typ, op.src)),
                !.used[op.to] = @ + 1,
                !.seq1 = IF op.via = "s1" THEN @ + op.n ELSE @,
                !.seq2 = IF op.via = "s2" THEN @ + op.n ELSE @]
    ELSE [io EXCEPT !.failed = ~op.soft]

\* the operations in order, up to the first failure that is not caught
RECURSIVE RunOps(_, _, _)
RunOps(io, ws, lim) ==
    IF io.failed \/ ws = <<>> THEN io
    ELSE RunOps(Exec1(io, Head(ws), lim), Tail(ws), lim)

\* how many writes to each connection succeed from now on: a connection
\* the client has closed takes the writes that are left until the reset
Limits ==
    {[c \in Conns |-> IF sock[c].peer = "gone" THEN sock[c].left ELSE Unlimited]}

\* the sockets after a step: the writes taken by a closed connection
AfterWrites(sk, io) ==
    [c \in Conns |-> IF sk[c].peer = "gone"
                     THEN [sk[c] EXCEPT !.left = @ - io.used[c]] ELSE sk[c]]

NotableTags == {"WIN", "LOSE", "OPPONENT_TIMEOUT", "TIMEOUT", "BYE", "OPPONENT_QUIT"}
Notable(fs) == {<<fs[i].tag, fs[i].src>> : i \in {k \in DOMAIN fs : fs[k].tag \in NotableTags}}
Numbered(fs) == SelectSeq(fs, LAMBDA f : f.typ # "RAW")
LastSeq(fs, before) ==
    LET ns == Numbered(fs)
    IN  IF ns = <<>> THEN before ELSE ns[Len(ns)].seq + ns[Len(ns)].n - 1

\* every step records what it wrote and who took it
Step(who, out) ==
    /\ emitted' = out
    /\ actor' = who
    /\ sentBefore' = [c \in Conns |-> sentBefore[c] \cup Notable(emitted[c])]
    /\ seqBefore' = [c \in Conns |-> LastSeq(emitted[c], seqBefore[c])]

NoOut == [c \in Conns |-> <<>>]

RECURSIVE SortedSeq(_)
SortedSeq(S) ==
    IF S = {} THEN <<>>
    ELSE LET m == CHOOSE x \in S : \A y \in S : x <= y
         IN  <<m>> \o SortedSeq(S \ {m})

\* a broadcast that would reach the lobby only
ChatOpsQueued(sender_username, message) ==
    LET cs == SortedSeq({c \in active_connections :
                           \E i \in DOMAIN waiting_lines : waiting_lines[i].conn = c})
    IN  [i \in DOMAIN cs |->
           Op(cs[i], "chat", "CHAT", <<sender_username, message>>, 1, 0, TRUE, 0)]
\* broadcast_chat: one CHAT packet, sequence number 0, to every connection of
\* active_connections; a connection whose send fails is removed
ChatOps(sender_username, message) ==
    LET cs == SortedSeq(active_connections)
    IN  [i \in DOMAIN cs |->
           Op(cs[i], "chat", "CHAT", <<sender_username, message>>, 1, 0, TRUE, 0)]
ChatFails(lim) ==
    {c \in active_connections : ~(sock[c].st = "open" /\ 0 < lim[c])}

\* lobby_broadcast of two_player_game: text written through makefile('w') to
\* every queued connection, no frame around it
LobbyOps(j, msg) ==
    [i \in DOMAIN waiting_lines |->
       Op(waiting_lines[i].conn, "raw", msg, "", 1, 0, TRUE, j)]

Readable(c) == sock[c].inbox # <<>> \/ sock[c].peer # "up"
InQueue(c) == \E i \in DOMAIN waiting_lines : waiting_lines[i].conn = c
WithoutConn(q, c) == SelectSeq(q, LAMBDA e : e.conn # c)

UnusedInsts == {j \in Insts : inst[j].st = "unused"}
NextInst == CHOOSE j \in UnusedInsts : \A k \in UnusedInsts : j <= k
UnusedConns == {c \in Conns : sock[c].st = "unused"}

(***************************************************************************)
(* Who can move.  The clients and the clock move only when every thread of *)
(* the server is blocked: the server runs each event to completion before  *)
(* the next one arrives.  The threads of the server interleave freely.     *)
(***************************************************************************)
GameThreadAlive(j) == inst[j].gt \in {"start", "placing", "play"}
KeyOf(j) == game_key(inst[j].username1, inst[j].username2)
ConnOf(j, p) == IF p = 1 THEN inst[j].conn1 ELSE inst[j].conn2
UserOf(j, p) == IF p = 1 THEN inst[j].username1 ELSE inst[j].username2
Other(p) == 3 - p
BoardOf(j, p) == IF p = 1 THEN inst[j].board1 ELSE inst[j].board2

\* the first name of the game's connected dict with the given flag
FirstUser(gs, flag) ==
    IF gs.connected[gs.users[1]] = flag THEN gs.users[1]
    ELSE IF gs.connected[gs.users[2]] = flag THEN gs.users[2]
    ELSE None

\* the pass of the supervisor's loop that is due changes something
PollDue(j) ==
    LET gs == games[KeyOf(j)]
    IN  IF ~GameThreadAlive(j) \/ gs = NoneRec THEN TRUE
        ELSE \/ gs.terminate_event # j
             \/ /\ gs.waiting_reconnect
                /\ \/ ~inst[j].disconnect_timeout_started
                   \/ gs.connected[gs.users[1]] /\ gs.connected[gs.users[2]]
                   \/ inst[j].disconnect_start_time >= ReconnectTicks
             \/ ~gs.waiting_reconnect /\ inst[j].disconnect_timeout_started

\* a receive that waits on the socket alone
RecvWaitsForData(j, c) ==
    \/ FALSE
    \/ Readable(c)
\* a receive of call j that waits on connection c returns: the select of
\* read_bytes_interruptible sees data or the end of the stream, or the loop
\* around it sees the terminate event of the call
RecvReturns(j, c) ==
    \/ inst[j].event
    \/ Readable(c)

Busy ==
    \/ \E c \in Conns :
         \/ mgr[c].pc = "route"
         \/ mgr[c].pc = "handshake" /\ Readable(c)
         \/ mgr[c].pc = "lobby" /\ (~InQueue(c) \/ Readable(c))
    \/ Len(waiting_lines) >= 2 /\ ~game_running /\ UnusedInsts # {}
    \/ \E j \in Insts :
         \/ inst[j].st = "spawned"
         \/ inst[j].st = "loop" /\ PollDue(j)
         \/ inst[j].st \in {"join_superseded", "join_forfeit"} /\ ~GameThreadAlive(j)
         \/ inst[j].gt = "start"
         \/ /\ inst[j].gt = "placing"
            /\ \/ \A p \in {1, 2} : inst[j].t[p] \in {"ret", "exc"}
               \/ \E p \in {1, 2} : inst[j].t[p] = "recv"
                                    /\ RecvReturns(j, ConnOf(j, p))
         \/ inst[j].gt = "play"
            /\ RecvReturns(j, ConnOf(j, inst[j].turn + 1))

(***************************************************************************)
(* The clients                                                             *)
(***************************************************************************)
Hellos == {GamePkt(<<W_USERNAME, <<n>>>>) : n \in Names}
\* first packets that are no USERNAME <name>: "USERNAME " with nothing after
\* it, another command, a chat packet, a frame with a bad checksum
BadHellos == {GamePkt(<<W_USERNAME>>), GamePkt(<<W_quit>>), ChatPkt(<<W_h>>), BadPkt}

\* a first packet under the name of the first player of the match in play
NameInPlay(hello) ==
    /\ hello \in Hellos
    /\ game_running
    /\ waiting_lines = <<>>
    /\ \A n \in Names : dropped[n] = NoneRec
    /\ \E j \in Insts : inst[j].gt = "play" /\ hello.payload[2] = <<inst[j].username1>>

\* when clients arrive: until the first pair is matched, a player whose
\* connection was lost in a match comes back under that name, and one
\* newcomer under a name of no session while a match is running, or under
\* the name of a player of the match in play
Arrival(hello) ==
    \/ /\ \A j \in Insts : inst[j].st = "unused"
       /\ hello \in Hellos => hello.payload[2][1] \in FirstNames
    \/ /\ hello \in Hellos
       /\ \E n \in Names : /\ hello.payload[2] = <<n>>
                            /\ dropped[n] # NoneRec
                            /\ dropped[n].by = 0
    \/ /\ hello = GamePkt(<<W_USERNAME, <<Newcomer>>>>)
       /\ game_running
       /\ waiting_lines = <<>>
       /\ player_sessions[Newcomer] = NoneRec
    \/ NameInPlay(hello)

\* a client connects and sends its first packet; main() accepts the
\* connection and starts game_manager on it
Connect(c) ==
    /\ UnusedConns # {}
    /\ c = CHOOSE x \in UnusedConns : \A y \in UnusedConns : x <= y
    /\ c <= MaxConns
    /\ ~Busy
    /\ \E hello \in Hellos \cup BadHellos :
         /\ Arrival(hello)
         /\ (hello \in Hellos /\ ~NameInPlay(hello)) \/ devs < MaxDev
         /\ sock' = [sock EXCEPT ![c] = [st |-> "open", peer |-> "up", inbox |-> <<hello>>, left |-> 0]]
         /\ devs' = IF hello \in Hellos /\ ~NameInPlay(hello) THEN devs ELSE devs + 1
    /\ mgr' = [mgr EXCEPT ![c].pc = "handshake"]
    /\ Step(<<"client", c>>, NoOut)
    /\ UNCHANGED << waiting_lines, active_connections, player_sessions, game_running,
                    games, heap, inst, dropped, codec >>

\* the client closes its end
ClientClose(c) ==
    /\ sock[c].st = "open"
    /\ sock[c].peer = "up"
    /\ devs < MaxDev
    /\ ~Busy
    /\ \E k \in 0..MaxFail : sock' = [sock EXCEPT ![c].peer = "gone", ![c].left = k]
    /\ devs' = devs + 1
    /\ Step(<<"client", c>>, NoOut)
    /\ UNCHANGED << mgr, waiting_lines, active_connections, player_sessions, game_running,
                    games, heap, inst, dropped, codec >>

(***************************************************************************)
(* game_manager                                                            *)
(***************************************************************************)
\* handle_initial_connection and the registration that follows it
\* (game_manager, lines 1058-1078)
HandshakeDo(c, lim) ==
    LET has == sock[c].inbox # <<>>
        pkt == IF has THEN Head(sock[c].inbox) ELSE BadPkt
        rest == IF has THEN Tail(sock[c].inbox) ELSE <<>>
        named == has /\ pkt.type = PKT_TYPE_GAME /\ pkt.payload # <<>>
                     /\ pkt.payload[1] = W_USERNAME
        \* payload.strip().split(" ", 1)[1] raises IndexError without a name
        valid == named /\ Len(pkt.payload) >= 2
        ops == IF ~has THEN <<>>
               ELSE IF ~named
               THEN <<Op(c, "pkt", "ERROR_USERNAME", "", 1, 0, FALSE, 0)>>
               ELSE IF ~valid THEN <<>>
               ELSE <<Op(c, "pkt", "WELCOME", "", 1, 0 + 1, FALSE, 0)>>
        io == RunOps(IO0(0), ops, lim)
        good == valid /\ ~io.failed
        sk == [AfterWrites(sock, io) EXCEPT ![c].inbox = rest]
    IN  [good |-> good,
         username |-> IF valid THEN pkt.payload[2][1] ELSE None,
         sock |-> IF good THEN sk ELSE [sk EXCEPT ![c].st = "closed"],
         out |-> io.out]

\* a game_manager that adds the connection to active_connections before it
\* looks at the result of the handshake
HandshakeAdmitsAll(c) ==
    /\ mgr[c].pc = "handshake"
    /\ Readable(c)
    /\ \E lim \in Limits : \E r \in {HandshakeDo(c, lim)} :
         /\ sock' = r.sock
         /\ mgr' = IF r.good THEN [mgr EXCEPT ![c] = [pc |-> "route", username |-> r.username]]
                   ELSE [mgr EXCEPT ![c].pc = "done"]
         /\ active_connections' =
              active_connections \cup {c}
         /\ player_sessions' =
              IF r.good
              THEN [player_sessions EXCEPT ![r.username] = [conn |-> c, in_game |-> FALSE]]
              ELSE player_sessions
         /\ dropped' =
              IF r.good /\ dropped[r.username] # NoneRec /\ dropped[r.username].by = 0
              THEN [dropped EXCEPT ![r.username].by = c,
                                   ![r.username].at = dropped[r.username].age]
              ELSE dropped
         /\ Step(<<"mgr", c>>, r.out)
    /\ UNCHANGED << waiting_lines, game_running, games, heap, inst, devs, codec >>

Handshake(c) ==
    /\ mgr[c].pc = "handshake"
    /\ Readable(c)
    /\ \E lim \in Limits : \E r \in {HandshakeDo(c, lim)} :
         /\ sock' = r.sock
         /\ mgr' = IF r.good THEN [mgr EXCEPT ![c] = [pc |-> "route", username |-> r.username]]
                   ELSE [mgr EXCEPT ![c].pc = "done"]
         /\ active_connections' =
              IF r.good THEN active_connections \cup {c} ELSE active_connections
         /\ player_sessions' =
              IF r.good
              THEN [player_sessions EXCEPT ![r.username] = [conn |-> c, in_game |-> FALSE]]
              ELSE player_sessions
         /\ dropped' =
              IF r.good /\ dropped[r.username] # NoneRec /\ dropped[r.username].by = 0
              THEN [dropped EXCEPT ![r.username].by = c,
                                   ![r.username].at = dropped[r.username].age]
              ELSE dropped
         /\ Step(<<"mgr", c>>, r.out)
    /\ UNCHANGED << waiting_lines, game_running, games, heap, inst, devs, codec >>

\* the games a connection of this name rejoins (game_manager, lines 1081-1086)
Rejoinable(username) ==
    {k \in Keys : /\ games[k] # NoneRec
                  /\ username \in {k[1], k[2]}
                  /\ games[k].waiting_reconnect
                  /\ ~games[k].connected[username]}

\* game_manager, lines 1080-1115: rejoin a waiting game, which calls
\* two_player_game on this thread, or join the lobby queue
MgrRouteDo(c, lim) ==
    LET io == RunOps(IO0(0),
                     << Op(c, "pkt", IF game_running THEN "LOBBY_IN_PROGRESS"
                                     ELSE "LOBBY_WAITING", "", 1, 0, TRUE, 0),
                        Op(c, "pkt", "LOBBY_CHAT_HINT", "", 1, 0, TRUE, 0) >>, lim)
    IN  [sock |-> AfterWrites(sock, io), out |-> io.out]

MgrRoute(c) ==
    /\ mgr[c].pc = "route"
    /\ LET username == mgr[c].username
       IN  IF Rejoinable(username) # {}
           THEN /\ UnusedInsts # {}
                /\ \E k \in Rejoinable(username) :
                     \E gs \in {[games[k] EXCEPT !.connected[username] = TRUE,
                                                 !.conns[username] = c]} :
                         /\ games' = [games EXCEPT ![k] = gs]
                         /\ inst' = [inst EXCEPT ![NextInst] =
                                       [FreshInst EXCEPT !.st = "spawned", !.by = c,
                                          !.username1 = k[1], !.username2 = k[2],
                                          !.conn1 = gs.conns[k[1]], !.conn2 = gs.conns[k[2]]]]
                /\ mgr' = [mgr EXCEPT ![c].pc = "sup"]
                /\ Step(<<"mgr", c>>, NoOut)
                /\ UNCHANGED << sock, waiting_lines >>
           ELSE \E lim \in Limits : \E r \in {MgrRouteDo(c, lim)} :
                    /\ waiting_lines' = Append(waiting_lines, [conn |-> c, username |-> username])
                    /\ sock' = r.sock
                    /\ mgr' = [mgr EXCEPT ![c].pc = "lobby"]
                    /\ Step(<<"mgr", c>>, r.out)
                    /\ UNCHANGED << games, inst >>
    /\ dropped' =
         LET n == mgr[c].username
         IN  IF dropped[n] # NoneRec /\ dropped[n].by = c
             THEN [dropped EXCEPT ![n].to = IF Rejoinable(n) # {} THEN "sup" ELSE "lobby"]
             ELSE dropped
    /\ UNCHANGED << active_connections, player_sessions, game_running, heap, devs, codec >>

\* the lobby loop of game_manager: its connection is still queued and a
\* packet or the end of the stream is there to read (lines 1134-1160)
LobbyReadDo(c, lim) ==
    LET pkt == Head(sock[c].inbox)
        chat == pkt.type = PKT_TYPE_CHAT
        io == IF chat THEN RunOps(IO0(0), ChatOps(mgr[c].username, pkt.payload), lim)
              ELSE IO0(0)
    IN  [sock |-> [AfterWrites(sock, io) EXCEPT ![c].inbox = Tail(sock[c].inbox)],
         active_connections |->
             IF chat THEN active_connections \ ChatFails(lim) ELSE active_connections,
         out |-> io.out]

LobbyRead(c) ==
    /\ mgr[c].pc = "lobby"
    /\ InQueue(c)
    /\ Readable(c)
    /\ IF sock[c].inbox = <<>>
       THEN \* recv_packet raises: the player has gone
            /\ waiting_lines' = WithoutConn(waiting_lines, c)
            /\ active_connections' = active_connections \ {c}
            /\ mgr' = [mgr EXCEPT ![c].pc = "done"]
            /\ Step(<<"mgr", c>>, NoOut)
            /\ UNCHANGED sock
       ELSE \E lim \in Limits : \E r \in {LobbyReadDo(c, lim)} :
                /\ sock' = r.sock
                /\ active_connections' = r.active_connections
                /\ Step(<<"mgr", c>>, r.out)
                /\ UNCHANGED << waiting_lines, mgr >>
    /\ UNCHANGED << player_sessions, game_running, games, heap, inst, devs, dropped, codec >>

\* the lobby loop finds its connection no longer queued (lines 1134-1138)
LobbyExit(c) ==
    /\ mgr[c].pc = "lobby"
    /\ ~InQueue(c)
    /\ mgr' = [mgr EXCEPT ![c].pc = "done"]
    /\ Step(<<"mgr", c>>, NoOut)
    /\ UNCHANGED << sock, waiting_lines, active_connections, player_sessions, game_running,
                    games, heap, inst, devs, dropped, codec >>

(***************************************************************************)
(* lobby_manager                                                           *)
(***************************************************************************)
\* one pass of lobby_manager with two or more queued and no game running:
\* prune, announce, wait five seconds, pop the head two and start
\* two_player_game on a new thread; all under waiting_players_lock
LobbyManagerDo(lim) ==
    LET q == SelectSeq(waiting_lines, LAMBDA e : sock[e.conn].st # "closed")
        note(i) == << Op(q[i].conn, "pkt", "LOBBY_NEXT_MATCH", "", 1, i - 1, TRUE, 0),
                      Op(q[i].conn, "pkt", "LOBBY_REMINDER", "", 1, i - 1, TRUE, 0) >>
        ops == IF Len(q) > 1 THEN [n \in 1..(2 * Len(q)) |-> note((n + 1) \div 2)[2 - (n % 2)]]
               ELSE [n \in 1..Len(q) |-> note(n)[1]]
        io == RunOps(IO0(0), ops, lim)
    IN  [q |-> q, sock |-> AfterWrites(sock, io), out |-> io.out]

LobbyManager ==
    /\ Len(waiting_lines) >= 2
    /\ ~game_running
    /\ UnusedInsts # {}
    /\ \E lim \in Limits : \E r \in {LobbyManagerDo(lim)} :
         /\ sock' = r.sock
         /\ Step(<<"lobby", 0>>, r.out)
         /\ IF Len(r.q) >= 2
            THEN /\ waiting_lines' = Tail(Tail(r.q))
                 /\ inst' = [inst EXCEPT ![NextInst] =
                               [FreshInst EXCEPT !.st = "spawned", !.by = 0,
                                  !.username1 = r.q[1].username, !.username2 = r.q[2].username,
                                  !.conn1 = r.q[1].conn, !.conn2 = r.q[2].conn]]
            ELSE /\ waiting_lines' = r.q
                 /\ UNCHANGED inst
    /\ UNCHANGED << mgr, active_connections, player_sessions, game_running, games, heap,
                    devs, dropped, codec >>

\* the same pass with something happening in its five seconds of sleep: the
\* client of one of the two connections at the head of the queue closes its
\* end.  The lock is held all through, so nothing else touches the queue;
\* the test after the sleep is len(waiting_lines) >= 2 again
LobbyManagerSlept(c) ==
    /\ Len(waiting_lines) >= 2
    /\ ~game_running
    /\ UnusedInsts # {}
    /\ devs < MaxDev
    /\ sock[c].st = "open"
    /\ sock[c].peer = "up"
    /\ \E lim \in Limits : \E r \in {LobbyManagerDo(lim)} :
         /\ Len(r.q) >= 2
         /\ c \in {r.q[1].conn, r.q[2].conn}
         /\ \E k \in 0..MaxFail :
              sock' = [r.sock EXCEPT ![c].peer = "gone", ![c].left = k]
         /\ Step(<<"lobby", 0>>, r.out)
         /\ waiting_lines' = Tail(Tail(r.q))
         /\ inst' = [inst EXCEPT ![NextInst] =
                       [FreshInst EXCEPT !.st = "spawned", !.by = 0,
                          !.username1 = r.q[1].username, !.username2 = r.q[2].username,
                          !.conn1 = r.q[1].conn, !.conn2 = r.q[2].conn]]
    /\ devs' = devs + 1
    /\ UNCHANGED << mgr, active_connections, player_sessions, game_running, games, heap,
                    dropped, codec >>


(***************************************************************************)
(* two_player_game: the supervisor                                         *)
(***************************************************************************)
S(j, p, tag, arg) == Op(ConnOf(j, p), IF p = 1 THEN "s1" ELSE "s2", tag, arg, 1, 0, FALSE, j)
\* a board view: OWN_BOARD or GRID, the column header, one line per row and
\* a blank line, each written as a packet of its own
View(j, p, tag) ==
    Op(ConnOf(j, p), IF p = 1 THEN "s1" ELSE "s2", tag, "", BOARD_SIZE + 3, 0, FALSE, j)
Cleared(io) == [io EXCEPT !.failed = FALSE]
\* the counters of send1 and send2 after a step's writes
Sent(me, io) == [me EXCEPT !.seq_send1 = io.seq1, !.seq_send2 = io.seq2]

\* two_player_game from its first line to game_thread.start() (lines 708-878)
SupStartDo(j, lim) ==
    LET me == inst[j]
        key == KeyOf(j)
        u1 == me.username1
        u2 == me.username2
        old == games[key]
        nb1 == 2 * j - 1
        nb2 == 2 * j
        gs == IF old = NoneRec
              THEN [board1 |-> nb1, board2 |-> nb2, turn |-> 0,
                    placed1 |-> FALSE, placed2 |-> FALSE,
                    users |-> <<u1, u2>>,
                    connected |-> [n \in {u1, u2} |-> TRUE],
                    conns |-> [n \in {u1, u2} |-> IF n = u2 THEN me.conn2 ELSE me.conn1],
                    waiting_reconnect |-> FALSE, last_disconnect_time |-> NoTime,
                    terminate_event |-> j, game_over_by_forfeit |-> FALSE]
              ELSE [old EXCEPT
                      !.connected = [n \in {u1, u2} |-> TRUE],
                      !.conns = [n \in {u1, u2} |-> IF n = u2 THEN me.conn2 ELSE me.conn1],
                      !.waiting_reconnect = FALSE, !.last_disconnect_time = NoTime,
                      !.terminate_event = j]
        io == RunOps(IO0(j), << S(j, 1, "INSTRUCTION", ""), S(j, 2, "INSTRUCTION", "") >>, lim)
    IN  [games |-> [games EXCEPT ![key] = gs],
         heap |-> IF old = NoneRec
                  THEN [heap EXCEPT ![nb1] = NewBoard, ![nb2] = NewBoard] ELSE heap,
         sock |-> AfterWrites(sock, io),
         out |-> io.out,
         failed |-> io.failed,
         \* a send that raises does so before game_thread exists: the handler
         \* sets the event and the finally block dies on the unbound name
         me |-> IF io.failed
                THEN Sent([me EXCEPT !.st = "crashed", !.event = TRUE], io)
                ELSE Sent([me EXCEPT !.st = "loop", !.gt = "start",
                                     !.board1 = gs.board1, !.board2 = gs.board2,
                                     !.turn = gs.turn, !.placed1 = gs.placed1,
                                     !.placed2 = gs.placed2], io)]

InGame(names, flag) ==
    [n \in Names |-> IF n \in names /\ player_sessions[n] # NoneRec
                     THEN [player_sessions[n] EXCEPT !.in_game = flag]
                     ELSE player_sessions[n]]

SupStart(j) ==
    /\ inst[j].st = "spawned"
    /\ \E lim \in Limits : \E r \in {SupStartDo(j, lim)} :
         /\ games' = r.games
         /\ heap' = r.heap
         /\ sock' = r.sock
         /\ inst' = [inst EXCEPT ![j] = r.me]
         /\ mgr' = IF r.failed /\ inst[j].by # 0 THEN [mgr EXCEPT ![inst[j].by].pc = "done"]
                   ELSE mgr
         /\ player_sessions' =
              IF r.failed THEN player_sessions
              ELSE InGame({inst[j].username1, inst[j].username2}, TRUE)
         /\ game_running' = (game_running \/ ~r.failed)
         /\ Step(<<"sup", j>>, r.out)
    /\ UNCHANGED << waiting_lines, active_connections, devs, dropped, codec >>
\* a finally block that does not compare the stored terminate event with its own
CleanupByAnyCall(j, g) ==
    LET me == inst[j]
        key == KeyOf(j)
        u1 == me.username1
        u2 == me.username2
        gs == g[key]
        is_still_active_supervisor == gs # NoneRec
        game_ended_by_this_supervisor ==
            is_still_active_supervisor /\ (~GameThreadAlive(j) \/ gs.game_over_by_forfeit)
        was_forfeit == gs.game_over_by_forfeit
        cand == IF was_forfeit
                THEN << [conn |-> gs.conns[u1], username |-> u1, ok |-> gs.connected[u1]],
                        [conn |-> gs.conns[u2], username |-> u2, ok |-> gs.connected[u2]] >>
                ELSE << [conn |-> me.conn1, username |-> u1, ok |-> TRUE],
                        [conn |-> me.conn2, username |-> u2, ok |-> TRUE] >>
        players_to_requeue ==
            SelectSeq(cand, LAMBDA e : e.ok /\ sock[e.conn].st # "closed")
        kept == SelectSeq(waiting_lines, LAMBDA e : e.username \notin {u1, u2})
        add(q, e) == IF \E i \in DOMAIN q : q[i].username = e.username THEN q
                     ELSE Append(q, [conn |-> e.conn, username |-> e.username])
        q1 == IF Len(players_to_requeue) >= 1 THEN add(kept, players_to_requeue[1]) ELSE kept
        q2 == IF Len(players_to_requeue) >= 2 THEN add(q1, players_to_requeue[2]) ELSE q1
    IN  IF game_ended_by_this_supervisor
        THEN [waiting_lines |-> q2,
              games |-> [g EXCEPT ![key] = NoneRec],
              player_sessions |-> InGame({u1, u2}, FALSE),
              game_running |-> FALSE,
              event |-> me.event,
              ended |-> IF was_forfeit THEN "forfeit" ELSE "normal"]
        ELSE [waiting_lines |-> waiting_lines, games |-> g,
              player_sessions |-> player_sessions, game_running |-> game_running,
              event |-> TRUE, ended |-> "superseded"]

\* the finally block of two_player_game (lines 946-998)
Cleanup(j, g) ==
    LET me == inst[j]
        key == KeyOf(j)
        u1 == me.username1
        u2 == me.username2
        gs == g[key]
        is_still_active_supervisor == gs # NoneRec /\ gs.terminate_event = j
        game_ended_by_this_supervisor ==
            is_still_active_supervisor /\ (~GameThreadAlive(j) \/ gs.game_over_by_forfeit)
        was_forfeit == gs.game_over_by_forfeit
        cand == IF was_forfeit
                THEN << [conn |-> gs.conns[u1], username |-> u1, ok |-> gs.connected[u1]],
                        [conn |-> gs.conns[u2], username |-> u2, ok |-> gs.connected[u2]] >>
                ELSE << [conn |-> me.conn1, username |-> u1, ok |-> TRUE],
                        [conn |-> me.conn2, username |-> u2, ok |-> TRUE] >>
        players_to_requeue ==
            SelectSeq(cand, LAMBDA e : e.ok /\ sock[e.conn].st # "closed")
        kept == SelectSeq(waiting_lines, LAMBDA e : e.username \notin {u1, u2})
        add(q, e) == IF \E i \in DOMAIN q : q[i].username = e.username THEN q
                     ELSE Append(q, [conn |-> e.conn, username |-> e.username])
        q1 == IF Len(players_to_requeue) >= 1 THEN add(kept, players_to_requeue[1]) ELSE kept
        q2 == IF Len(players_to_requeue) >= 2 THEN add(q1, players_to_requeue[2]) ELSE q1
    IN  IF game_ended_by_this_supervisor
        THEN [waiting_lines |-> q2,
              games |-> [g EXCEPT ![key] = NoneRec],
              player_sessions |-> InGame({u1, u2}, FALSE),
              game_running |-> FALSE,
              event |-> me.event,
              ended |-> IF was_forfeit THEN "forfeit" ELSE "normal"]
        ELSE [waiting_lines |-> waiting_lines, games |-> g,
              player_sessions |-> player_sessions, game_running |-> game_running,
              event |-> TRUE, ended |-> "superseded"]

\* a finally block that clears game_running without putting anyone back
\* into the queue
FinishNoRequeue(j, g) ==
    \E r \in {Cleanup(j, g)} :
        /\ waiting_lines' = waiting_lines
        /\ games' = r.games
        /\ player_sessions' = r.player_sessions
        /\ game_running' = r.game_running
        /\ inst' = [inst EXCEPT ![j].st = "done", ![j].event = r.event, ![j].ended = r.ended]
        /\ mgr' = IF inst[j].by = 0 THEN mgr ELSE [mgr EXCEPT ![inst[j].by].pc = "done"]

\* a finally block that leaves the entry of the match in the match map
FinishKeepsEntry(j, g) ==
    \E r \in {Cleanup(j, g)} :
        /\ waiting_lines' = r.waiting_lines
        /\ games' = g
        /\ player_sessions' = r.player_sessions
        /\ game_running' = r.game_running
        /\ inst' = [inst EXCEPT ![j].st = "done", ![j].event = r.event, ![j].ended = r.ended]
        /\ mgr' = IF inst[j].by = 0 THEN mgr ELSE [mgr EXCEPT ![inst[j].by].pc = "done"]

\* a finally block that leaves game_running set
FinishKeepsRunning(j, g) ==
    \E r \in {Cleanup(j, g)} :
        /\ waiting_lines' = r.waiting_lines
        /\ games' = r.games
        /\ player_sessions' = r.player_sessions
        /\ game_running' = game_running
        /\ inst' = [inst EXCEPT ![j].st = "done", ![j].event = r.event, ![j].ended = r.ended]
        /\ mgr' = IF inst[j].by = 0 THEN mgr ELSE [mgr EXCEPT ![inst[j].by].pc = "done"]

\* the supervisor leaves its loop, runs the finally block and returns
Finish(j, g) ==
    \E r \in {Cleanup(j, g)} :
        /\ waiting_lines' = r.waiting_lines
        /\ games' = r.games
        /\ player_sessions' = r.player_sessions
        /\ game_running' = r.game_running
        /\ inst' = [inst EXCEPT ![j].st = "done", ![j].event = r.event, ![j].ended = r.ended]
        /\ mgr' = IF inst[j].by = 0 THEN mgr ELSE [mgr EXCEPT ![inst[j].by].pc = "done"]

\* the pass of the monitoring loop that watches a pending reconnect
\* (lines 898-937)
WatchDo(j, lim) ==
    LET me == inst[j]
        key == KeyOf(j)
        gs == games[key]
        gone == FirstUser(gs, FALSE)
        begin == ~me.disconnect_timeout_started /\ gone # None
        reset == ~me.disconnect_timeout_started /\ gone = None
        started == me.disconnect_timeout_started \/ begin
        start_time == IF begin THEN gs.last_disconnect_time ELSE me.disconnect_start_time
        back == started /\ gs.connected[gs.users[1]] /\ gs.connected[gs.users[2]]
        expired == started /\ ~back /\ start_time >= ReconnectTicks
        winner == FirstUser(gs, TRUE)
        ops == IF expired /\ winner # None
               THEN <<Op(gs.conns[winner], "pkt", "OPPONENT_TIMEOUT", "", 1, 0, TRUE, j)>>
               ELSE <<>>
        io == RunOps(IO0(j), ops, lim)
    IN  [me |-> [me EXCEPT
                   !.disconnect_timeout_started = started /\ ~back,
                   !.disconnect_start_time = start_time,
                   !.disconnected_user_monitor = IF begin THEN gone ELSE @,
                   !.event = @ \/ expired,
                   !.st = IF expired THEN "join_forfeit" ELSE @],
         games |-> IF reset THEN [games EXCEPT ![key].waiting_reconnect = FALSE] ELSE games,
         sock |-> AfterWrites(sock, io),
         out |-> io.out]

\* one pass of the supervisor's monitoring loop (lines 885-939)
SupPoll(j) ==
    /\ inst[j].st = "loop"
    /\ PollDue(j)
    /\ IF ~GameThreadAlive(j)
       THEN /\ Finish(j, games)
            /\ Step(<<"sup", j>>, NoOut)
            /\ UNCHANGED sock
       ELSE IF games[KeyOf(j)] = NoneRec \/ games[KeyOf(j)].terminate_event # j
       THEN /\ inst' = [inst EXCEPT ![j].st = "join_superseded", ![j].event = TRUE]
            /\ Step(<<"sup", j>>, NoOut)
            /\ UNCHANGED << sock, waiting_lines, games, player_sessions, game_running, mgr >>
       ELSE IF ~games[KeyOf(j)].waiting_reconnect
       THEN /\ inst' = [inst EXCEPT ![j].disconnect_timeout_started = FALSE]
            /\ Step(<<"sup", j>>, NoOut)
            /\ UNCHANGED << sock, waiting_lines, games, player_sessions, game_running, mgr >>
       ELSE \E lim \in Limits : \E r \in {WatchDo(j, lim)} :
                /\ inst' = [inst EXCEPT ![j] = r.me]
                /\ games' = r.games
                /\ sock' = r.sock
                /\ Step(<<"sup", j>>, r.out)
                /\ UNCHANGED << waiting_lines, player_sessions, game_running, mgr >>
    /\ UNCHANGED << active_connections, heap, devs, dropped, codec >>

\* game_thread.join() has returned after the supervisor set its event: the
\* forfeit is recorded in the game state the supervisor was looking at, and
\* the finally block runs
SupJoin(j) ==
    /\ inst[j].st \in {"join_superseded", "join_forfeit"}
    /\ ~GameThreadAlive(j)
    /\ Finish(j, IF inst[j].st = "join_forfeit" /\ games[KeyOf(j)] # NoneRec
                 THEN [games EXCEPT ![KeyOf(j)].game_over_by_forfeit = TRUE] ELSE games)
    /\ Step(<<"sup", j>>, NoOut)
    /\ UNCHANGED << sock, active_connections, heap, devs, dropped, codec >>

\* rfile1._sock / rfile1.buffer.raw._sock: RFileWrapper1 has neither, so the
\* play loop has no socket to select on
rfile_sock == None
\* the select() of the play loop runs out before the tick it waits in is
\* over, if there is a socket to select on
TimeoutDue(j) ==
    /\ rfile_sock # None
    /\ inst[j].gt = "play"
    /\ ~inst[j].event
    /\ ~Readable(ConnOf(j, inst[j].turn + 1))

\* time passes: every running clock advances by one tick
Older(t) == IF t = NoTime THEN NoTime ELSE Min(t + 1, ReconnectTicks)
Tick ==
    /\ \A j \in Insts : ~TimeoutDue(j)
    /\ ~Busy
    /\ games' = [k \in Keys |->
                   IF games[k] = NoneRec THEN NoneRec
                   ELSE [games[k] EXCEPT !.last_disconnect_time = Older(@)]]
    /\ inst' = [j \in Insts |->
                  [inst[j] EXCEPT
                     !.disconnect_start_time =
                         IF inst[j].disconnect_timeout_started THEN Older(@) ELSE @,
                     !.turn_age = IF inst[j].gt = "play" THEN Min(@ + 1, TurnTicks) ELSE @]]
    /\ dropped' = [n \in Names |->
                     IF dropped[n] = NoneRec THEN NoneRec
                     ELSE [dropped[n] EXCEPT !.age = Older(@)]]
    /\ <<games', inst', dropped'>> # <<games, inst, dropped>>
    /\ Step(<<"clock", 0>>, NoOut)
    /\ UNCHANGED << sock, mgr, waiting_lines, active_connections, player_sessions,
                    game_running, heap, devs, codec >>

(***************************************************************************)
(* two_player_game: the game thread, run_two_player_game_online            *)
(***************************************************************************)
\* save_state_hook (server.py): whatever entry the key names now is updated
save_state_hook(g, key, b1, b2, t, p1, p2) ==
    IF g[key] = NoneRec THEN g
    ELSE [g EXCEPT ![key].board1 = b1, ![key].board2 = b2, ![key].turn = t,
                   ![key].placed1 = p1, ![key].placed2 = p2]

\* player_disconnected_callback (server.py): the entry after it and the
\* notice it sends
player_disconnected_callback(j, g, username_dc) ==
    LET key == KeyOf(j)
        gs == g[key]
        other_user == IF username_dc = inst[j].username1 THEN inst[j].username2
                      ELSE inst[j].username1
        other_conn == IF username_dc = inst[j].username1 THEN inst[j].conn2
                      ELSE inst[j].conn1
        marked == [gs EXCEPT !.connected[username_dc] = FALSE,
                             !.waiting_reconnect = TRUE,
                             !.last_disconnect_time = 0]
    IN  IF gs = NoneRec \/ ~gs.connected[username_dc] THEN [games |-> g, ops |-> <<>>]
        ELSE [games |-> [g EXCEPT ![key] = marked],
              ops |-> IF marked.connected[other_user]
                      THEN <<Op(other_conn, "pkt", "INFO_OPPONENT_DISCONNECTED", "", 1, 0, TRUE, j)>>
                      ELSE <<>>]

\* disconnect_and_pause: the callback, then the two notices inside one try
disconnect_and_pause(j, g, io, player_num, lim) ==
    LET cb == player_disconnected_callback(j, g, UserOf(j, player_num))
        io1 == RunOps(io, cb.ops, lim)
        io2 == RunOps(io1, << S(j, Other(player_num), "INFO_OPPONENT_60", ""),
                              S(j, player_num, "INFO_YOU_60", "") >>, lim)
    IN  [games |-> cb.games, io |-> Cleared(io2)]

\* what recv_packet_handle_chat makes of the next thing on a connection
Recv(j, c) ==
    IF inst[j].event THEN "abort"
    ELSE IF sock[c].inbox = <<>> THEN "eof"
    ELSE LET pkt == Head(sock[c].inbox)
         IN  IF pkt.type = PKT_TYPE_CHAT THEN "chat"
             ELSE IF pkt.type = BadPkt.type THEN "bad"
             ELSE IF pkt.payload = <<>> THEN "empty"
             ELSE "line"
Taken(sk, c, kind) ==
    IF kind \in {"abort", "eof"} THEN sk ELSE [sk EXCEPT ![c].inbox = Tail(@)]

\* the record kept of a connection lost in a match
DropRec(j, p) ==
    [conn |-> ConnOf(j, p), opp |-> ConnOf(j, Other(p)), inst |-> j, age |-> 0,
     phase |-> inst[j].gt, onturn |-> UserOf(j, inst[j].turn + 1),
     ships |-> [u \in {inst[j].username1, inst[j].username2} |->
                  Len(heap[BoardOf(j, IF u = inst[j].username1 THEN 1 ELSE 2)].placed_ships)],
     by |-> 0, at |-> 0, to |-> None]
Dropping(j, p, kind) ==
    IF kind = "eof" THEN [dropped EXCEPT ![UserOf(j, p)] = DropRec(j, p)] ELSE dropped

\* the first ship index from k on that the board has not got yet
NextShip(board, k) ==
    IF Len(board.placed_ships) > k THEN Min(Len(board.placed_ships), Len(SHIPS)) ELSE k

PromptOps(j, p, k) ==
    <<S(j, p, "PLACING", k)>>
      \o (IF SHIPS[k + 1].size = SHIPS[1].size THEN LobbyOps(j, "LOBBY_PLACING") ELSE <<>>)

\* place_ships_for_player from ship index k up to its next receive or its end
EnterPlacement(j, p, k, hp, io, lim) ==
    LET n == NextShip(hp[BoardOf(j, p)], k)
        last == IF Len(hp[BoardOf(j, Other(p))].placed_ships) < Len(SHIPS)
                THEN <<S(j, p, "WAITING_FOR_OPPONENT_TO_FINISH", "")>> ELSE <<>>
        io1 == RunOps(io, IF n < Len(SHIPS) THEN PromptOps(j, p, n) ELSE last, lim)
    IN  [io |-> Cleared(io1),
         pc |-> IF io1.failed THEN "exc" ELSE IF n < Len(SHIPS) THEN "recv" ELSE "ret",
         ship_idx |-> IF n < Len(SHIPS) THEN n ELSE Len(SHIPS) - 1]

\* run_two_player_game_online up to t2.start() (battleship.py 459-577)
GameStartDo(j, lim) ==
    LET me == inst[j]
        io0 == RunOps(IO0(j), << S(j, 1, "WELCOME_PLAYER", 1), S(j, 2, "WELCOME_PLAYER", 2),
                                 S(j, 1, "PLACE_SHIPS", ""), S(j, 2, "PLACE_SHIPS", "") >>, lim)
        e1 == IF me.placed1 THEN [io |-> io0, pc |-> "ret", ship_idx |-> 0]
              ELSE EnterPlacement(j, 1, 0, heap, io0, lim)
        e2 == IF me.placed2 THEN [io |-> e1.io, pc |-> "ret", ship_idx |-> 0]
              ELSE EnterPlacement(j, 2, 0, heap, e1.io, lim)
        io == IF io0.failed THEN io0 ELSE e2.io
    IN  [me |-> IF io0.failed THEN Sent([me EXCEPT !.gt = "dead"], io)
                ELSE Sent([me EXCEPT !.gt = "placing", !.t = <<e1.pc, e2.pc>>,
                                     !.ship_idx = <<e1.ship_idx, e2.ship_idx>>], io),
         sock |-> AfterWrites(sock, io),
         out |-> io.out]

GameStart(j) ==
    /\ inst[j].gt = "start"
    /\ \E lim \in Limits : \E r \in {GameStartDo(j, lim)} :
         /\ inst' = [inst EXCEPT ![j] = r.me]
         /\ sock' = r.sock
         /\ Step(<<"game", j>>, r.out)
    /\ UNCHANGED << mgr, waiting_lines, active_connections, player_sessions, game_running,
                    games, heap, devs, dropped, codec >>

\* the checks without the one of the ship name
PlaceCheckAnyShip(line, board, k) ==
    LET coord == parse_coordinate(line[2])
        orientation == IF lower(line[3]) = W_h THEN 0 ELSE 1
    IN  IF Len(line) # 4 THEN [ok |-> FALSE, err |-> "ERROR_FORMAT"]
        ELSE IF lower(line[1]) # W_place THEN [ok |-> FALSE, err |-> "ERROR_COMMAND"]
        ELSE IF ~coord.ok THEN [ok |-> FALSE, err |-> "ERROR_COORDINATE"]
        ELSE IF lower(line[3]) \notin {W_h, W_v} THEN [ok |-> FALSE, err |-> "ERROR_ORIENTATION"]
        ELSE IF ~can_place_ship(board, coord.row, coord.col, SHIPS[k + 1].size, orientation)
        THEN [ok |-> FALSE, err |-> "ERROR_CANNOT_PLACE"]
        ELSE [ok |-> TRUE, row |-> coord.row, col |-> coord.col, orientation |-> orientation]

\* the checks of one placement line, in the order the code makes them
PlaceCheck(line, board, k) ==
    LET coord == parse_coordinate(line[2])
        orientation == IF lower(line[3]) = W_h THEN 0 ELSE 1
    IN  IF Len(line) # 4 THEN [ok |-> FALSE, err |-> "ERROR_FORMAT"]
        ELSE IF lower(line[1]) # W_place THEN [ok |-> FALSE, err |-> "ERROR_COMMAND"]
        ELSE IF lower(line[4]) # lower(SHIPS[k + 1].name) THEN [ok |-> FALSE, err |-> "ERROR_SHIP"]
        ELSE IF ~coord.ok THEN [ok |-> FALSE, err |-> "ERROR_COORDINATE"]
        ELSE IF lower(line[3]) \notin {W_h, W_v} THEN [ok |-> FALSE, err |-> "ERROR_ORIENTATION"]
        ELSE IF ~can_place_ship(board, coord.row, coord.col, SHIPS[k + 1].size, orientation)
        THEN [ok |-> FALSE, err |-> "ERROR_CANNOT_PLACE"]
        ELSE [ok |-> TRUE, row |-> coord.row, col |-> coord.col, orientation |-> orientation]

\* place_ships_for_player: one receive and what follows it up to the next
\* receive or the end of the thread (battleship.py 511-571)
PlaceRecvDo(j, p, lim) ==
    LET me == inst[j]
        c == ConnOf(j, p)
        kind == Recv(j, c)
        k == me.ship_idx[p]
        b == BoardOf(j, p)
        line == Head(sock[c].inbox).payload
        chk == PlaceCheck(line, heap[b], k)
        dp == disconnect_and_pause(j, games, IO0(j), p, lim)
        hp == [heap EXCEPT ![b] = do_place_ship(@, chk.row, chk.col, SHIPS[k + 1].size,
                                                chk.orientation, SHIPS[k + 1].name)]
        saved == save_state_hook(games, KeyOf(j), me.board1, me.board2, me.turn,
                                 me.placed1 \/ (p = 1 /\ k = Len(SHIPS) - 1),
                                 me.placed2 \/ (p = 2 /\ k = Len(SHIPS) - 1))
        placed == EnterPlacement(j, p, k + 1, hp, IO0(j), lim)
        err == RunOps(IO0(j), <<S(j, p, chk.err, "")>>, lim)
        \* continue: the same ship is prompted for again
        asked == RunOps(err, PromptOps(j, p, k), lim)
        again == [io |-> Cleared(asked), pc |-> IF asked.failed THEN "exc" ELSE "recv",
                  ship_idx |-> k]
        said == RunOps(IO0(j), IF line = <<>> THEN <<>>
                               ELSE ChatOps(UserOf(j, p), line), lim)
        r == CASE kind = "chat" -> [io |-> said, pc |-> "recv", ship_idx |-> k,
                                     games |-> games, heap |-> heap]
               [] kind = "line" /\ chk.ok -> [io |-> placed.io, pc |-> placed.pc,
                                               ship_idx |-> placed.ship_idx,
                                               games |-> saved, heap |-> hp]
               [] kind = "line" /\ ~chk.ok -> [io |-> again.io, pc |-> again.pc,
                                                ship_idx |-> again.ship_idx,
                                                games |-> games, heap |-> heap]
               [] OTHER -> [io |-> dp.io, pc |-> "ret", ship_idx |-> k,
                            games |-> dp.games, heap |-> heap]
    IN  [me |-> Sent([me EXCEPT !.t[p] = r.pc, !.ship_idx[p] = r.ship_idx], r.io),
         games |-> r.games,
         heap |-> r.heap,
         sock |-> Taken(AfterWrites(sock, r.io), c, kind),
         active_connections |->
             IF kind = "chat" /\ line # <<>> THEN active_connections \ ChatFails(lim)
             ELSE active_connections,
         dropped |-> Dropping(j, p, kind),
         out |-> r.io.out]

PlaceRecv(j, p) ==
    /\ inst[j].gt = "placing"
    /\ inst[j].t[p] = "recv"
    /\ RecvReturns(j, ConnOf(j, p))
    /\ \E lim \in Limits : \E r \in {PlaceRecvDo(j, p, lim)} :
         /\ inst' = [inst EXCEPT ![j] = r.me]
         /\ games' = r.games
         /\ heap' = r.heap
         /\ sock' = r.sock
         /\ active_connections' = r.active_connections
         /\ dropped' = r.dropped
         /\ Step(<<"place", j>>, r.out)
    /\ UNCHANGED << mgr, waiting_lines, player_sessions, game_running, devs, codec >>

\* the start of a turn: both views and READY to the player on turn, WAITING
\* to the other, the lobby line and the 30 s notice (battleship.py 629-635)
TurnOps(j, turn) ==
    << View(j, turn + 1, "OWN_BOARD"), View(j, turn + 1, "GRID"),
       S(j, turn + 1, "READY", ""), S(j, Other(turn + 1), "WAITING", "") >>
      \o LobbyOps(j, "LOBBY_TURN")
      \o << S(j, turn + 1, "THIRTY_SECONDS", "") >>

\* t1.join(), t2.join() and what follows up to the first receive of the
\* play loop (battleship.py 578-635)
GameJoinDo(j, lim) ==
    LET me == inst[j]
        placed1 == Len(heap[me.board1].placed_ships) = Len(SHIPS)
        placed2 == Len(heap[me.board2].placed_ships) = Len(SHIPS)
        io == IF placed1 /\ placed2
              THEN RunOps(IO0(j), << S(j, 1, "ALL_SHIPS_PLACED", ""),
                                     S(j, 2, "ALL_SHIPS_PLACED", "") >>
                                    \o TurnOps(j, me.turn), lim)
              ELSE IO0(j)
    IN  [games |-> save_state_hook(games, KeyOf(j), me.board1, me.board2, me.turn,
                                   placed1, placed2),
         me |-> Sent([me EXCEPT !.placed1 = placed1, !.placed2 = placed2,
                        !.gt = IF placed1 /\ placed2 /\ ~io.failed THEN "play" ELSE "dead",
                        !.moves = 0, !.turn_age = 0], io),
         sock |-> AfterWrites(sock, io),
         out |-> io.out]

GameJoin(j) ==
    /\ inst[j].gt = "placing"
    /\ \A p \in {1, 2} : inst[j].t[p] \in {"ret", "exc"}
    /\ \E lim \in Limits : \E r \in {GameJoinDo(j, lim)} :
         /\ games' = r.games
         /\ inst' = [inst EXCEPT ![j] = r.me]
         /\ sock' = r.sock
         /\ Step(<<"game", j>>, r.out)
    /\ UNCHANGED << mgr, waiting_lines, active_connections, player_sessions, game_running,
                    heap, devs, dropped, codec >>

\* the writes of one shot inside the try block (battleship.py 682-702)
ShotOps(j, p, fr, won, moves) ==
    <<S(j, p, "RESULT", <<fr.result, fr.sunk_name>>)>>
      \o LobbyOps(j, "LOBBY_FIRED")
      \o (CASE fr.result = "hit" ->
                 (IF fr.sunk_name # NoName
                  THEN << S(j, p, "SUNK", fr.sunk_name), S(j, Other(p), "YOUR_SHIP_SUNK", fr.sunk_name) >>
                  ELSE << S(j, p, "HIT", ""), S(j, Other(p), "YOUR_SHIP_HIT", "") >>)
                 \o (IF won
                     THEN << View(j, p, "GRID"), View(j, Other(p), "GRID"),
                             S(j, p, "WIN", moves), S(j, Other(p), "LOSE", "") >>
                            \o LobbyOps(j, "LOBBY_WINS")
                     ELSE <<>>)
            [] fr.result = "miss" -> << S(j, p, "MISS", ""), S(j, Other(p), "OPPONENT_MISS", "") >>
            [] OTHER -> << S(j, p, "ALREADY_SHOT", "") >>)

\* one receive of the play loop and what follows it up to the next receive
\* or the end of the thread (battleship.py 637-711, 612-635)
TurnRecvDo(j, lim) ==
    LET me == inst[j]
        p == me.turn + 1
        c == ConnOf(j, p)
        timed_out == TimeoutDue(j)
        kind == IF timed_out THEN "timeout" ELSE Recv(j, c)
        msg == Head(sock[c].inbox).payload
        key == KeyOf(j)
        ob == BoardOf(j, Other(p))
        dp == disconnect_and_pause(j, games, IO0(j), p, lim)
        said == RunOps(IO0(j), IF msg = <<>> THEN <<>> ELSE ChatOps(UserOf(j, p), msg), lim)
        bye == RunOps(IO0(j), << S(j, p, "BYE", ""), S(j, Other(p), "OPPONENT_QUIT", "") >>
                                \o LobbyOps(j, "LOBBY_QUIT"), lim)
        late == RunOps(IO0(j), << S(j, p, "TIMEOUT", ""), S(j, Other(p), "OPPONENT_TIMEOUT", "") >>
                                 \o LobbyOps(j, "LOBBY_TIMED_OUT"), lim)
        quit == Len(msg) = 1 /\ lower(msg[1]) = W_quit
        pf == parse_fire_message(msg)
        pcd == IF pf.ok THEN parse_coordinate(pf.coord) ELSE pf
        fr == fire_at(heap[ob], pcd.row, pcd.col)
        won == fr.result = "hit" /\ all_ships_sunk(fr.board)
        shot == RunOps(IO0(j), ShotOps(j, p, fr, won, me.moves + 1), lim)
        raised == ~pcd.ok \/ shot.failed
        \* except Exception: ERROR to the player on turn, then continue
        told == RunOps(IF pcd.ok THEN Cleared(shot) ELSE IO0(j),
                       <<S(j, p, "ERROR", IF pcd.ok THEN "send" ELSE pcd.err)>>, lim)
        turn == IF raised \/ fr.result = "already_shot" THEN me.turn ELSE 1 - me.turn
        base == IF raised THEN told ELSE shot
        next == RunOps(base, TurnOps(j, turn), lim)
        over == ~raised /\ won
        r == CASE kind = "timeout" ->
                    [io |-> late, gt |-> "dead", games |-> games, heap |-> heap,
                     turn |-> me.turn, moves |-> me.moves, shut |-> ~late.failed]
               [] kind = "chat" ->
                    [io |-> said, gt |-> "play", games |-> games, heap |-> heap,
                     turn |-> me.turn, moves |-> me.moves, shut |-> FALSE]
               [] kind = "line" /\ quit ->
                    [io |-> bye, gt |-> "dead", games |-> games, heap |-> heap,
                     turn |-> me.turn, moves |-> me.moves, shut |-> FALSE]
               [] kind = "line" /\ ~quit ->
                    [io |-> IF over THEN shot ELSE next,
                     gt |-> IF over \/ next.failed THEN "dead" ELSE "play",
                     games |-> IF raised \/ over \/ fr.result = "already_shot" THEN games
                               ELSE save_state_hook(games, key, me.board1, me.board2, turn,
                                                    me.placed1, me.placed2),
                     heap |-> IF pcd.ok THEN [heap EXCEPT ![ob] = fr.board] ELSE heap,
                     turn |-> turn,
                     moves |-> IF pcd.ok THEN me.moves + 1 ELSE me.moves,
                     shut |-> FALSE]
               [] OTHER ->
                    [io |-> dp.io, gt |-> "dead", games |-> dp.games, heap |-> heap,
                     turn |-> me.turn, moves |-> me.moves, shut |-> FALSE]
        sk == Taken(AfterWrites(sock, r.io), c, IF kind = "timeout" THEN "abort" ELSE kind)
    IN  [me |-> Sent([me EXCEPT !.gt = r.gt, !.turn = r.turn, !.moves = r.moves,
                                !.turn_age = IF kind = "chat" THEN @ ELSE 0], r.io),
         games |-> r.games,
         heap |-> r.heap,
         sock |-> IF r.shut THEN [sk EXCEPT ![c].st = "closed"] ELSE sk,
         active_connections |->
             IF kind = "chat" /\ msg # <<>> THEN active_connections \ ChatFails(lim)
             ELSE active_connections,
         dropped |-> Dropping(j, p, kind),
         out |-> r.io.out]

TurnRecv(j) ==
    /\ inst[j].gt = "play"
    /\ \/ TimeoutDue(j)
       \/ RecvReturns(j, ConnOf(j, inst[j].turn + 1))
    /\ \E lim \in Limits : \E r \in {TurnRecvDo(j, lim)} :
         /\ inst' = [inst EXCEPT ![j] = r.me]
         /\ games' = r.games
         /\ heap' = r.heap
         /\ sock' = r.sock
         /\ active_connections' = r.active_connections
         /\ dropped' = r.dropped
         /\ Step(<<"game", j>>, r.out)
    /\ UNCHANGED << mgr, waiting_lines, player_sessions, game_running, devs, codec >>

(***************************************************************************)
(* What the clients send                                                   *)
(***************************************************************************)
W_A1 == <<"A", "1">>
W_J10 == <<"J", "1", "0">>
W_K1 == <<"K", "1">>
W_1A == <<"1", "A">>

\* the straight line: each ship in the row of its index, from column 1
PlaceLine(k) == GamePkt(<<W_place, CoordText(k, 0), W_h, lower(SHIPS[k + 1].name)>>)
\* the first ship cell of a board in reading order
Target(board) ==
    LET live == {x \in DOMAIN board.hidden_grid : board.hidden_grid[x] = "S"}
    IN  IF live = {} THEN NoName
        ELSE CHOOSE x \in live :
               \A y \in live : x[1] < y[1] \/ (x[1] = y[1] /\ x[2] <= y[2])
FireLine(board) == GamePkt(<<W_FIRE, CoordText(Target(board)[1], Target(board)[2])>>)

\* the calls of two_player_game the clients play in: the first MaxMatches
Played(j) ==
    Cardinality({i \in 1..j : inst[i].st # "unused"}) <= MaxMatches
Placing(c) == {x \in Insts \X {1, 2} :
                 /\ inst[x[1]].gt = "placing"
                 /\ inst[x[1]].t[x[2]] = "recv"
                 /\ ConnOf(x[1], x[2]) = c
                 /\ Played(x[1])}
OnTurn(c) == {j \in Insts : inst[j].gt = "play" /\ ConnOf(j, inst[j].turn + 1) = c /\ Played(j)}

Expected(c) ==
    {PlaceLine(inst[x[1]].ship_idx[x[2]]) : x \in Placing(c)}
      \cup {FireLine(heap[BoardOf(j, Other(inst[j].turn + 1))]) :
              j \in {i \in OnTurn(c) : Target(heap[BoardOf(i, Other(inst[i].turn + 1))]) # NoName}}

\* packets off the straight line
Deviant(c) ==
    {ChatPkt(<<W_h>>), ChatPkt(<<>>), BadPkt, GamePkt(<<>>)}
      \cup (IF Placing(c) = {} THEN {}
            ELSE LET k == inst[(CHOOSE x \in Placing(c) : TRUE)[1]].ship_idx[(CHOOSE x \in Placing(c) : TRUE)[2]]
                     ship == lower(SHIPS[k + 1].name)
                 IN  {GamePkt(<<W_place>>),
                      GamePkt(<<W_move, W_A1, W_h, ship>>),
                      GamePkt(<<W_PLACE, W_A1, W_h, lower(SHIPS[((k + 1) % Len(SHIPS)) + 1].name)>>),
                      GamePkt(<<W_place, W_1A, W_h, ship>>),
                      GamePkt(<<W_place, W_K1, W_h, ship>>),
                      GamePkt(<<W_place, CoordText(k, 0), W_x, ship>>),
                      GamePkt(<<W_place, W_J10, W_H, ship>>)})
      \cup (IF OnTurn(c) = {} THEN {}
            ELSE {GamePkt(<<W_quit>>), GamePkt(<<W_move>>), GamePkt(<<W_FIRE, W_K1>>),
                  GamePkt(<<W_fire, W_J10>>), GamePkt(<<W_FIRE, W_A1>>)})

\* a client sends one packet and waits for it to be taken
ClientSend(c) ==
    /\ sock[c].st = "open"
    /\ sock[c].peer = "up"
    /\ sock[c].inbox = <<>>
    /\ mgr[c].pc \notin {"none", "handshake"}
    /\ ~Busy
    /\ \E line \in {Expected(c)} :
         \E pkt \in line \cup (IF devs < MaxDev THEN Deviant(c) ELSE {}) :
             /\ sock' = [sock EXCEPT ![c].inbox = <<pkt>>]
             /\ devs' = IF pkt \in line THEN devs ELSE devs + 1
    /\ Step(<<"client", c>>, NoOut)
    /\ UNCHANGED << mgr, waiting_lines, active_connections, player_sessions, game_running,
                    games, heap, inst, dropped, codec >>

\* a client sends the packet it is asked for and closes its end at once
ClientSendClose(c) ==
    /\ sock[c].st = "open"
    /\ sock[c].peer = "up"
    /\ sock[c].inbox = <<>>
    /\ mgr[c].pc \notin {"none", "handshake"}
    /\ ~Busy
    /\ devs < MaxDev
    /\ \E pkt \in Expected(c) : \E k \in 0..MaxFail :
         sock' = [sock EXCEPT ![c].inbox = <<pkt>>, ![c].peer = "gone", ![c].left = k]
    /\ devs' = devs + 1
    /\ Step(<<"client", c>>, NoOut)
    /\ UNCHANGED << mgr, waiting_lines, active_connections, player_sessions, game_running,
                    games, heap, inst, dropped, codec >>

(***************************************************************************)
(* The server as a whole                                                   *)
(***************************************************************************)
Next ==
    \/ \E c \in Conns : Connect(c)
    \/ \E c \in Conns : ClientClose(c)
    \/ \E c \in Conns : ClientSend(c)
    \/ \E c \in Conns : ClientSendClose(c)
    \/ \E c \in Conns : Handshake(c)
    \/ \E c \in Conns : MgrRoute(c)
    \/ \E c \in Conns : LobbyRead(c)
    \/ \E c \in Conns : LobbyExit(c)
    \/ LobbyManager
    \/ \E c \in Conns : LobbyManagerSlept(c)
    \/ \E j \in Insts : SupStart(j)
    \/ \E j \in Insts : SupPoll(j)
    \/ \E j \in Insts : SupJoin(j)
    \/ \E j \in Insts : GameStart(j)
    \/ \E j \in Insts : \E p \in {1, 2} : PlaceRecv(j, p)
    \/ \E j \in Insts : GameJoin(j)
    \/ \E j \in Insts : TurnRecv(j)
    \/ Tick

Spec == Init /\ [][Next]_vars

(***************************************************************************)
(* The placement phase with clients that do not wait for the server: a     *)
(* player answers a prompt it has been sent at any moment, also while the  *)
(* supervisor of an instance that has been replaced has not polled yet and *)
(* its placement thread still reads the player's connection.               *)
(***************************************************************************)
Prompted(c) == {x \in Insts \X {1, 2} :
                  /\ inst[x[1]].gt = "placing"
                  /\ inst[x[1]].t[x[2]] = "recv"
                  /\ ConnOf(x[1], x[2]) = c}

\* a supervisor whose instance has been replaced and has not polled yet
Replaced(j) ==
    /\ inst[j].st = "loop"
    /\ GameThreadAlive(j)
    /\ ~inst[j].event
    /\ games[KeyOf(j)] # NoneRec
    /\ games[KeyOf(j)].terminate_event # j

\* the placement thread of a replaced instance and the one of the instance
\* that replaced it are both waiting for c
Twice(c) ==
    /\ \A d \in Conns : sock[d].inbox = <<>>
    /\ \E x \in Prompted(c) : \E y \in Prompted(c) : Replaced(x[1]) /\ ~Replaced(y[1])

\* a line for ship k in this row is taken, whichever thread reads it
Fits(c, k, row) ==
    \A x \in Prompted(c) :
        can_place_ship(heap[BoardOf(x[1], x[2])], row, 0, SHIPS[k + 1].size, 0)

\* the player answers when every prompt it has is for the same ship: that
\* ship, in the row of its index or, when that row is taken, Len(SHIPS) rows
\* below it
ClientPlace(c) ==
    /\ sock[c].st = "open"
    /\ sock[c].peer = "up"
    /\ sock[c].inbox = <<>>
    /\ ~Busy \/ Twice(c)
    /\ \E k \in 0..(Len(SHIPS) - 1) : \E row \in {k, k + Len(SHIPS)} :
         /\ Prompted(c) # {}
         /\ \A x \in Prompted(c) : inst[x[1]].ship_idx[x[2]] = k
         /\ Fits(c, k, row)
         /\ row = k \/ ~Fits(c, k, k)
         /\ sock' = [sock EXCEPT ![c].inbox =
                       <<GamePkt(<<W_place, CoordText(row, 0), W_h,
                                   lower(SHIPS[k + 1].name)>>)>>]
    /\ Step(<<"client", c>>, NoOut)
    /\ UNCHANGED << mgr, waiting_lines, active_connections, player_sessions, game_running,
                    games, heap, inst, devs, dropped, codec >>

NextResume ==
    \/ \E c \in Conns : Connect(c)
    \/ \E c \in Conns : ClientClose(c)
    \/ \E c \in Conns : ClientPlace(c)
    \/ \E c \in Conns : Handshake(c)
    \/ \E c \in Conns : MgrRoute(c)
    \/ \E c \in Conns : LobbyRead(c)
    \/ \E c \in Conns : LobbyExit(c)
    \/ LobbyManager
    \/ \E j \in Insts : SupStart(j)
    \/ \E j \in Insts : SupPoll(j)
    \/ \E j \in Insts : SupJoin(j)
    \/ \E j \in Insts : GameStart(j)
    \/ \E j \in Insts : \E p \in {1, 2} : PlaceRecv(j, p)
    \/ \E j \in Insts : GameJoin(j)
    \/ Tick

SpecResume == Init /\ [][NextResume]_vars

(***************************************************************************)
(* The lobby under a burst of arrivals: clients connect within one wait of *)
(* lobby_manager (the 0.5 s between two looks at the queue), so more than  *)
(* two are queued when it looks.  The thread lobby_manager starts for a    *)
(* pair and lobby_manager itself run on without synchronisation: the next  *)
(* look at the queue may come before or after that thread has set          *)
(* game_running.                                                           *)
(***************************************************************************)
ConnectBurst(c) ==
    /\ UnusedConns # {}
    /\ c = CHOOSE x \in UnusedConns : \A y \in UnusedConns : x <= y
    /\ \A j \in Insts : inst[j].st = "unused"
    /\ \A d \in Conns : mgr[d].pc \in {"none", "lobby", "done"}
    /\ \E hello \in Hellos :
         sock' = [sock EXCEPT ![c] = [st |-> "open", peer |-> "up", inbox |-> <<hello>>, left |-> 0]]
    /\ mgr' = [mgr EXCEPT ![c].pc = "handshake"]
    /\ Step(<<"client", c>>, NoOut)
    /\ UNCHANGED << waiting_lines, active_connections, player_sessions, game_running,
                    games, heap, inst, devs, dropped, codec >>

NextLobby ==
    \/ \E c \in Conns : ConnectBurst(c)
    \/ \E c \in Conns : Handshake(c)
    \/ \E c \in Conns : MgrRoute(c)
    \/ LobbyManager
    \/ \E j \in Insts : SupStart(j)
    \/ \E j \in Insts : GameStart(j)

SpecLobby == Init /\ [][NextLobby]_vars

(***************************************************************************)
(* Reconnects that race: a second connection under the name of the lost    *)
(* player registers while the game_manager of the first is between its     *)
(* handshake and the rejoin test.  The test (lines 1081-1086), the writes  *)
(* to the game state (1087-1089) and the call of two_player_game           *)
(* (1091-1095) take no lock, so the two game_manager threads interleave    *)
(* between them.                                                           *)
(***************************************************************************)
ConnectTwin(c) ==
    /\ UnusedConns # {}
    /\ c = CHOOSE x \in UnusedConns : \A y \in UnusedConns : x <= y
    /\ \E d \in Conns :
         /\ mgr[d].pc = "route"
         /\ Rejoinable(mgr[d].username) # {}
         /\ \A e \in Conns \ {d} : mgr[e].pc \notin {"handshake", "route", "bind", "call"}
         /\ sock' = [sock EXCEPT ![c] = [st |-> "open", peer |-> "up",
                                         inbox |-> <<GamePkt(<<W_USERNAME, <<mgr[d].username>>>>)>>,
                                         left |-> 0]]
    /\ mgr' = [mgr EXCEPT ![c].pc = "handshake"]
    /\ Step(<<"client", c>>, NoOut)
    /\ UNCHANGED << waiting_lines, active_connections, player_sessions, game_running,
                    games, heap, inst, devs, dropped, codec >>

\* the game state a game_manager holds on to from its loop over games
Held(username) ==
    {k \in Keys : games[k] # NoneRec /\ username \in {k[1], k[2]}}

\* the test of lines 1081-1086 comes out true
MgrCheck(c) ==
    /\ mgr[c].pc = "route"
    /\ Rejoinable(mgr[c].username) # {}
    /\ mgr' = [mgr EXCEPT ![c].pc = "bind"]
    /\ Step(<<"mgr", c>>, NoOut)
    /\ UNCHANGED << sock, waiting_lines, active_connections, player_sessions, game_running,
                    games, heap, inst, devs, dropped, codec >>

\* lines 1087-1089
MgrBind(c) ==
    /\ mgr[c].pc = "bind"
    /\ \E k \in Held(mgr[c].username) :
         games' = [games EXCEPT ![k].connected[mgr[c].username] = TRUE,
                                ![k].conns[mgr[c].username] = c]
    /\ mgr' = [mgr EXCEPT ![c].pc = "call"]
    /\ Step(<<"mgr", c>>, NoOut)
    /\ UNCHANGED << sock, waiting_lines, active_connections, player_sessions, game_running,
                    heap, inst, devs, dropped, codec >>

\* lines 1091-1095: two_player_game is called on this thread
MgrCall(c) ==
    /\ mgr[c].pc = "call"
    /\ UnusedInsts # {}
    /\ \E k \in Held(mgr[c].username) :
         inst' = [inst EXCEPT ![NextInst] =
                    [FreshInst EXCEPT !.st = "spawned", !.by = c,
                       !.username1 = k[1], !.username2 = k[2],
                       !.conn1 = games[k].conns[k[1]], !.conn2 = games[k].conns[k[2]]]]
    /\ mgr' = [mgr EXCEPT ![c].pc = "sup"]
    /\ Step(<<"mgr", c>>, NoOut)
    /\ UNCHANGED << sock, waiting_lines, active_connections, player_sessions, game_running,
                    games, heap, devs, dropped, codec >>

NextRebind ==
    \/ \E c \in Conns : Connect(c)
    \/ \E c \in Conns : ConnectTwin(c)
    \/ \E c \in Conns : ClientClose(c)
    \/ \E c \in Conns : Handshake(c)
    \/ \E c \in Conns : MgrRoute(c)
    \/ \E c \in Conns : MgrCheck(c)
    \/ \E c \in Conns : MgrBind(c)
    \/ \E c \in Conns : MgrCall(c)
    \/ \E c \in Conns : LobbyExit(c)
    \/ LobbyManager
    \/ \E j \in Insts : SupStart(j)
    \/ \E j \in Insts : SupPoll(j)
    \/ \E j \in Insts : SupJoin(j)
    \/ \E j \in Insts : GameStart(j)
    \/ \E j \in Insts : \E p \in {1, 2} : PlaceRecv(j, p)
    \/ \E j \in Insts : GameJoin(j)

SpecRebind == Init /\ [][NextRebind]_vars

(***************************************************************************)
(* The frame codec on its own, src/protocol.py                             *)
(***************************************************************************)
\* sequence numbers: 0, 1, 255, 256, 65536, 2^31, 2^32 - 1
SeqInputs == {U32(0), U32(1), U32(255), U32(256), <<1, 0>>, <<32768, 0>>, <<65535, 65535>>}
TypeInputs == {0, PKT_TYPE_GAME, PKT_TYPE_CHAT, 255}
ByteInputs == {0, 65, 255}
PayloadInputs == UNION {[1..n -> ByteInputs] : n \in 0..MaxPayloadLen}
\* os.urandom(NONCE_SIZE): two of the nonces it may draw
NonceInputs == {[i \in 1..NONCE_SIZE |-> 0], [i \in 1..NONCE_SIZE |-> (i * 37) % 256]}

InitCodec ==
    /\ InitServer
    /\ codec \in {[stage |-> "input", seq |-> q, pkt_type |-> t, payload |-> pl, nonce |-> n] :
                    q \in SeqInputs, t \in TypeInputs, pl \in PayloadInputs, n \in NonceInputs}

Frozen == UNCHANGED << sock, mgr, waiting_lines, active_connections, player_sessions,
                       game_running, games, heap, inst, devs, emitted, actor, sentBefore,
                       seqBefore, dropped >>

Build ==
    /\ codec.stage = "input"
    /\ codec' = [stage |-> "built", seq |-> codec.seq, pkt_type |-> codec.pkt_type,
                 payload |-> codec.payload, nonce |-> codec.nonce,
                 packet |-> build_packet(codec.seq, codec.pkt_type, codec.payload, codec.nonce)]
    /\ Frozen

Parse ==
    /\ codec.stage = "built"
    /\ codec' = [stage |-> "parsed", seq |-> codec.seq, pkt_type |-> codec.pkt_type,
                 payload |-> codec.payload, nonce |-> codec.nonce,
                 packet |-> codec.packet, result |-> parse_packet(codec.packet)]
    /\ Frozen

NextCodec == Build \/ Parse

SpecCodec == InitCodec /\ [][NextCodec]_vars

\* Buffers of other sizes than the builder makes: the built frame, the frame
\* with bytes after its checksum, and the frame cut short
Resized(packet) ==
    {packet, packet \o <<0>>, packet \o <<255, 65>>}
      \cup {SubSeq(packet, 1, Len(packet) - k) :
              k \in {1, CHECKSUM_SIZE, CHECKSUM_SIZE + 1, Len(packet) - HEADER_SIZE + 1}}

Resize ==
    /\ codec.stage = "built"
    /\ \E buffer \in Resized(codec.packet) :
         codec' = [stage |-> "resized", seq |-> codec.seq, pkt_type |-> codec.pkt_type,
                   payload |-> codec.payload, nonce |-> codec.nonce, packet |-> buffer]
    /\ Frozen

ParseBuffer ==
    /\ codec.stage = "resized"
    /\ codec' = [stage |-> "checked", seq |-> codec.seq, pkt_type |-> codec.pkt_type,
                 payload |-> codec.payload, nonce |-> codec.nonce,
                 packet |-> codec.packet, result |-> parse_packet(codec.packet)]
    /\ Frozen

NextBuffer == Build \/ Resize \/ ParseBuffer

SpecBuffer == InitCodec /\ [][NextBuffer]_vars


(***************************************************************************)
(* A board on its own, src/battleship.py Board                             *)
(***************************************************************************)
\* the cells placements start at and the cells shots go to
BoardPlaceAt == {<<0, 0>>, <<0, 5>>, <<1, 0>>, <<0, 7>>}
BoardShotAt == {<<0, c>> : c \in 0..8} \cup {<<1, 0>>}

FrozenServer == UNCHANGED << sock, mgr, waiting_lines, active_connections, player_sessions,
                             game_running, games, inst, devs, emitted, actor, sentBefore,
                             seqBefore, dropped, codec >>

\* the next ship of SHIPS is placed where can_place_ship allows it
BoardPlace ==
    /\ Len(heap[1].placed_ships) < Len(SHIPS)
    /\ \E at \in BoardPlaceAt, orientation \in {0, 1} :
         LET ship == SHIPS[Len(heap[1].placed_ships) + 1]
         IN  /\ can_place_ship(heap[1], at[1], at[2], ship.size, orientation)
             /\ heap' = [heap EXCEPT ![1] = do_place_ship(@, at[1], at[2], ship.size,
                                                          orientation, ship.name)]
    /\ FrozenServer

BoardFire ==
    /\ \E at \in BoardShotAt :
         /\ GridAt(heap[1].hidden_grid, at[1], at[2]) \in {".", "S"}
         /\ heap' = [heap EXCEPT ![1] = fire_at(@, at[1], at[2]).board]
    /\ FrozenServer

NextBoard == BoardPlace \/ BoardFire

SpecBoard == Init /\ [][NextBoard]_vars

(***************************************************************************)
(* Single-player mode, server.py single_player and battleship.py           *)
(* run_single_player_game_online                                           *)
(***************************************************************************)
\* packets a client of a single-player game sends before the model stops it
MaxCmds == 4

\* boards place_ships_randomly can leave
SingleBoards ==
    {do_place_ship(do_place_ship(NewBoard, 0, 0, SHIPS[1].size, o, SHIPS[1].name),
                   at[1], at[2], SHIPS[2].size, 0, SHIPS[2].name) :
       o \in {0, 1}, at \in {<<1, 1>>, <<7, 3>>}}
\* what the client sends: shots, quit, another word, an empty line, chat and
\* a frame with a bad checksum
SinglePkts ==
    {GamePkt(<<W_fire, CoordText(0, 0)>>), GamePkt(<<W_FIRE, CoordText(9, 9)>>),
     GamePkt(<<W_quit>>), GamePkt(<<W_move>>), GamePkt(<<>>), ChatPkt(<<W_h>>), BadPkt}

\* game_manager has registered the first connection under the first name and
\* calls single_player
InitSingle ==
    /\ sock = [c \in Conns |-> [st |-> IF c = 1 THEN "open" ELSE "unused", peer |-> "up",
                                inbox |-> <<>>, left |-> 0]]
    /\ mgr = [c \in Conns |-> IF c = 1
                THEN [pc |-> "single_start", username |-> NameTab[1], seq_send |-> 0,
                      moves |-> 0, taken |-> 0]
                ELSE [pc |-> "none", username |-> None]]
    /\ waiting_lines = <<>>
    /\ active_connections = {1}
    /\ player_sessions = [n \in Names |-> IF n = NameTab[1]
                            THEN [conn |-> 1, in_game |-> FALSE, disconnected |-> FALSE]
                            ELSE NoneRec]
    /\ game_running = FALSE
    /\ games = [k \in Keys |-> NoneRec]
    /\ heap = [b \in BoardIds |-> NewBoard]
    /\ inst = [j \in Insts |-> FreshInst]
    /\ devs = 0
    /\ emitted = [c \in Conns |-> <<>>]
    /\ actor = <<"init", 0>>
    /\ sentBefore = [c \in Conns |-> {}]
    /\ seqBefore = [c \in Conns |-> -1]
    /\ dropped = [n \in Names |-> NoneRec]
    /\ codec = CodecIdle

\* send of single_player: one packet per write, numbered by seq_send
SingleSend(c, tag, arg, n) == Op(c, "s1", tag, arg, n, 0, FALSE, 0)
SingleIO(c) == [IO0(0) EXCEPT !.seq1 = mgr[c].seq_send]
\* send_board(board) and send("READY") at the head of the loop
SinglePrompt(c) ==
    << SingleSend(c, "GRID", "", BOARD_SIZE + 3), SingleSend(c, "READY", "", 1) >>

\* the step taken when an exception leaves run_single_player_game_online, or
\* the game returns: the except branch marks the session and waits for a
\* reconnect, a return closes the connection in the finally block
SingleLeave(c, io, pc, board, moves, took) ==
    /\ mgr' = [mgr EXCEPT ![c].pc = pc, ![c].seq_send = io.seq1, ![c].moves = moves,
                          ![c].taken = @ + (IF took THEN 1 ELSE 0)]
    /\ heap' = [heap EXCEPT ![c] = board]
    /\ sock' = [d \in Conns |->
                  LET sk == AfterWrites(sock, io)[d]
                  IN  IF d # c THEN sk
                      ELSE [sk EXCEPT !.inbox = IF took THEN Tail(@) ELSE @,
                                      !.st = IF pc = "done" THEN "closed" ELSE @]]
    /\ player_sessions' = IF pc = "single_wait"
                          THEN [player_sessions EXCEPT ![mgr[c].username].disconnected = TRUE]
                          ELSE player_sessions
    /\ Step(<<"single", c>>, io.out)

\* single_player up to the first readline: the instruction, WELCOME, the
\* board and READY (server.py 664-683, battleship.py 374-380)
SingleStart(c) ==
    /\ mgr[c].pc = "single_start"
    /\ \E board \in SingleBoards, lim \in Limits :
         LET io == RunOps(SingleIO(c), << SingleSend(c, "INSTRUCTION", "", 1),
                                          SingleSend(c, "WELCOME", "", 1) >>
                                         \o SinglePrompt(c), lim)
         IN  SingleLeave(c, io, IF io.failed THEN "single_wait" ELSE "single_ready",
                         board, 0, FALSE)
    /\ UNCHANGED << waiting_lines, active_connections, game_running, games, inst, devs,
                    dropped, codec >>

\* what follows the second readline of recv(): the command is interpreted
\* (battleship.py 381-397)
SingleCommand(c, msg, lim) ==
    LET me == mgr[c]
        quit == Len(msg) = 1 /\ lower(msg[1]) = W_quit
        bye == RunOps(SingleIO(c), <<SingleSend(c, "BYE", "", 1)>>, lim)
        pf == parse_fire_message(msg)
        pcd == IF pf.ok THEN parse_coordinate(pf.coord) ELSE pf
        fr == fire_at(heap[c], pcd.row, pcd.col)
        won == fr.result = "hit" /\ all_ships_sunk(fr.board)
        shot == RunOps(SingleIO(c),
                       <<SingleSend(c, "RESULT", <<fr.result, fr.sunk_name>>, 1)>>
                         \o (IF won THEN << SingleSend(c, "GRID", "", BOARD_SIZE + 3),
                                            SingleSend(c, "WIN", me.moves + 1, 1) >>
                             ELSE <<>>), lim)
        raised == ~pcd.ok \/ shot.failed
        \* except Exception as e: send(f"ERROR {e}")
        told == RunOps(IF pcd.ok THEN Cleared(shot) ELSE SingleIO(c),
                       <<SingleSend(c, "ERROR", IF pcd.ok THEN "send" ELSE pcd.err, 1)>>, lim)
        base == IF raised THEN told ELSE shot
        next == RunOps(base, SinglePrompt(c), lim)
        board == IF pcd.ok THEN fr.board ELSE heap[c]
        moves == IF pcd.ok THEN me.moves + 1 ELSE me.moves
    IN  IF quit
        THEN [io |-> bye, pc |-> IF bye.failed THEN "single_wait" ELSE "done",
              board |-> heap[c], moves |-> me.moves]
        ELSE IF ~raised /\ won
        THEN [io |-> shot, pc |-> "done", board |-> board, moves |-> moves]
        ELSE [io |-> next, pc |-> IF next.failed THEN "single_wait" ELSE "single_ready",
              board |-> board, moves |-> moves]

\* one readline of recv() in run_single_player_game_online, which is one
\* recv_packet_handle_chat of single_player, and what follows it up to the
\* next readline (battleship.py 367-372, server.py 660-663, 1024-1055)
SingleRecv(c) ==
    /\ mgr[c].pc \in {"single_ready", "single_line"}
    /\ Readable(c)
    /\ \E lim \in Limits :
         IF sock[c].inbox = <<>>
         THEN /\ SingleLeave(c, SingleIO(c), "single_wait", heap[c], mgr[c].moves, FALSE)
              /\ UNCHANGED active_connections
         ELSE LET pkt == Head(sock[c].inbox)
                  said == RunOps(SingleIO(c), IF pkt.payload = <<>> THEN <<>>
                                              ELSE ChatOps(mgr[c].username, pkt.payload), lim)
                  r == SingleCommand(c, pkt.payload, lim)
              IN  IF pkt.type = PKT_TYPE_CHAT
                  THEN /\ SingleLeave(c, said, mgr[c].pc, heap[c], mgr[c].moves, TRUE)
                       /\ active_connections' =
                            IF pkt.payload # <<>> THEN active_connections \ ChatFails(lim)
                            ELSE active_connections
                  ELSE /\ UNCHANGED active_connections
                       /\ IF pkt.type # PKT_TYPE_GAME
                          THEN SingleLeave(c, SingleIO(c), "single_wait", heap[c],
                                           mgr[c].moves, TRUE)
                          ELSE IF mgr[c].pc = "single_ready"
                          \* if rfile.readline().strip(): return rfile.readline().strip()
                          THEN SingleLeave(c, SingleIO(c),
                                           IF pkt.payload # <<>> THEN "single_line"
                                           ELSE "single_wait",
                                           heap[c], mgr[c].moves, TRUE)
                          ELSE SingleLeave(c, r.io, r.pc, r.board, r.moves, TRUE)
    /\ UNCHANGED << waiting_lines, game_running, games, inst, devs, dropped, codec >>

\* wait_for_reconnect returns without a new connection; the finally block
\* closes the socket (server.py 689-701)
SingleGiveUp(c) ==
    /\ mgr[c].pc = "single_wait"
    /\ SingleLeave(c, SingleIO(c), "done", heap[c], mgr[c].moves, FALSE)
    /\ UNCHANGED << waiting_lines, active_connections, game_running, games, inst, devs,
                    dropped, codec >>

SingleClientSend(c) ==
    /\ sock[c].st = "open"
    /\ sock[c].peer = "up"
    /\ mgr[c].pc \in {"single_ready", "single_line"}
    /\ Len(sock[c].inbox) < 2
    /\ mgr[c].taken + Len(sock[c].inbox) < MaxCmds
    /\ \E pkt \in SinglePkts : sock' = [sock EXCEPT ![c].inbox = Append(@, pkt)]
    /\ Step(<<"client", c>>, NoOut)
    /\ UNCHANGED << mgr, waiting_lines, active_connections, player_sessions, game_running,
                    games, heap, inst, devs, dropped, codec >>

NextSingle ==
    \/ SingleStart(1)
    \/ SingleRecv(1)
    \/ SingleGiveUp(1)
    \/ SingleClientSend(1)
    \/ ClientClose(1)

SpecSingle == InitSingle /\ [][NextSingle]_vars

(***************************************************************************)
(* Writes that take time.  In placement the two placement threads of a     *)
(* match answer their players through send_packet and hand chat to         *)
(* broadcast_chat; here a thread's writes are carried out one sendall at   *)
(* a time, each with a beginning and an end (server.py 42-46, 1000-1023).  *)
(* codec holds the thread state: the writes a thread still has to make,    *)
(* the connection whose sendall it is inside, the holder of                *)
(* active_connections_lock and the packets the clients have sent.          *)
(***************************************************************************)
\* packets the players of the match send while its writes are followed
MaxSent == 2

SendIdle == [todo |-> << <<>>, <<>> >>, in_sendall |-> <<0, 0>>, chat_lock |-> 0, sent |-> 0]

InitSend == InitServer /\ codec = SendIdle

\* the frames of a step in the order of the connections, each with the
\* connection it goes to
RECURSIVE WritesOf(_, _)
WritesOf(out, c) ==
    IF c \notin Conns THEN <<>>
    ELSE [i \in DOMAIN out[c] |-> [to |-> c, frame |-> out[c][i]]] \o WritesOf(out, c + 1)

\* a player in placement sends the line it is asked for, a PLACE without
\* arguments or a chat line
SendClient(c) ==
    /\ sock[c].st = "open" /\ sock[c].peer = "up"
    /\ sock[c].inbox = <<>>
    /\ Placing(c) # {}
    /\ codec.sent < MaxSent
    /\ \E pkt \in Expected(c) \cup {GamePkt(<<W_place>>), ChatPkt(<<W_h>>)} :
         sock' = [sock EXCEPT ![c].inbox = <<pkt>>]
    /\ codec' = [codec EXCEPT !.sent = @ + 1]
    /\ Step(<<"client", c>>, NoOut)
    /\ UNCHANGED << mgr, waiting_lines, active_connections, player_sessions, game_running,
                    games, heap, inst, devs, dropped >>

\* placement thread p of the first match takes a packet: what the receive
\* and the code after it do to the server state is done at once, the writes
\* are left to be made; broadcast_chat first takes active_connections_lock
SendTake(p) ==
    /\ inst[1].gt = "placing"
    /\ IF inst[1].gt = "placing" THEN inst[1].t[p] = "recv" ELSE FALSE
    /\ sock[ConnOf(1, p)].inbox # <<>>
    /\ codec.todo[p] = <<>>
    /\ LET chat == IF sock[ConnOf(1, p)].inbox = <<>> THEN FALSE
                   ELSE Head(sock[ConnOf(1, p)].inbox).type = PKT_TYPE_CHAT
       IN  /\ chat => codec.chat_lock = 0
           /\ \E lim \in Limits : \E r \in {PlaceRecvDo(1, p, lim)} :
                /\ inst' = [inst EXCEPT ![1] = r.me]
                /\ games' = r.games
                /\ heap' = r.heap
                /\ sock' = r.sock
                /\ active_connections' = r.active_connections
                /\ dropped' = r.dropped
                /\ codec' = [codec EXCEPT
                               !.todo[p] = WritesOf(r.out, 1),
                               !.chat_lock = IF chat /\ WritesOf(r.out, 1) # <<>> THEN p ELSE @]
    /\ Step(<<"place", 1>>, NoOut)
    /\ UNCHANGED << mgr, waiting_lines, player_sessions, game_running, devs >>

\* the thread enters conn.sendall for its next write
SendBegin(p) ==
    /\ codec.todo[p] # <<>>
    /\ codec.in_sendall[p] = 0
    /\ codec' = [codec EXCEPT !.in_sendall[p] = Head(codec.todo[p]).to]
    /\ Step(<<"place", 1>>, NoOut)
    /\ UNCHANGED << sock, mgr, waiting_lines, active_connections, player_sessions,
                    game_running, games, heap, inst, devs, dropped >>

\* conn.sendall returns; after the last write of a broadcast the lock is
\* released
SendEnd(p) ==
    /\ codec.in_sendall[p] # 0
    /\ codec' = [codec EXCEPT
                   !.in_sendall[p] = 0,
                   !.todo[p] = Tail(@),
                   !.chat_lock = IF @ = p /\ Len(codec.todo[p]) = 1 THEN 0 ELSE @]
    /\ Step(<<"place", 1>>,
            [c \in Conns |-> IF c = codec.in_sendall[p]
                             THEN <<Head(codec.todo[p]).frame>> ELSE <<>>])
    /\ UNCHANGED << sock, mgr, waiting_lines, active_connections, player_sessions,
                    game_running, games, heap, inst, devs, dropped >>

NextSend ==
    \/ \E c \in Conns : Connect(c)
    \/ \E c \in Conns : Handshake(c)
    \/ \E c \in Conns : MgrRoute(c)
    \/ \E c \in Conns : LobbyExit(c)
    \/ LobbyManager
    \/ \E j \in Insts : SupStart(j)
    \/ \E j \in Insts : GameStart(j)
    \/ \E c \in Conns : SendClient(c)
    \/ \E p \in {1, 2} : SendTake(p)
    \/ \E p \in {1, 2} : SendBegin(p)
    \/ \E p \in {1, 2} : SendEnd(p)

SpecSend == InitSend /\ [][NextSend]_vars

(***************************************************************************)
(* Properties of the reconnect protocol                                    *)
(***************************************************************************)
\* what a connection has been sent up to and in this step
SentTo(c) == sentBefore[c] \cup Notable(emitted[c])
\* the two names of a call of two_player_game differ
TwoNames(j) == inst[j].username1 # inst[j].username2
\* the seat a name has in a call
SeatOf(j, u) == IF inst[j].username1 = u THEN 1 ELSE 2
\* the calls of two_player_game a connection's game_manager made
RejoinsBy(c) == {j \in Insts : inst[j].by = c /\ inst[j].st \notin {"unused", "spawned", "crashed"}}

\* C1: a player who lost the connection in a match and whose name completes
\* the handshake again before the reconnect window has run out is taken back
\* into that match, and the rebuilt match has every player's placed ships
\* on that player's own board and, in play, the same player on turn.
C1_ReconnectResumes ==
    \A n \in Names :
        LET d == dropped[n]
        IN  (d # NoneRec /\ d.by # 0 /\ d.at < ReconnectTicks /\ d.to # None
               /\ TwoNames(d.inst) /\ sock[d.opp].peer = "up")
              => /\ d.to = "sup"
                 /\ \A j \in RejoinsBy(d.by) :
                      (inst[j].gt = "start" /\ KeyOf(j) = KeyOf(d.inst))
                        => /\ \A u \in {inst[j].username1, inst[j].username2} :
                                Len(heap[BoardOf(j, SeatOf(j, u))].placed_ships) >= d.ships[u]
                           /\ d.phase = "play" => UserOf(j, inst[j].turn + 1) = d.onturn

\* C2: while the window of a lost connection is open and nobody has come
\* back under that name, the match entry is there, with the player marked
\* disconnected and the reconnect pending.
C2_EntryKeptWhileWaiting ==
    \A n \in Names :
        LET d == dropped[n]
        IN  (d # NoneRec /\ d.by = 0 /\ d.age < ReconnectTicks /\ TwoNames(d.inst))
              => /\ games[KeyOf(d.inst)] # NoneRec
                 /\ ~games[KeyOf(d.inst)].connected[n]
                 /\ games[KeyOf(d.inst)].waiting_reconnect

\* C3: once the window of a lost connection has run out with nobody back
\* under that name and the server has come to rest, the opponent who is
\* still connected has been sent OPPONENT_TIMEOUT by that match and the
\* entry of the match is gone.
C3_ExpiryEndsMatch ==
    \A n \in Names :
        LET d == dropped[n]
        IN  (d # NoneRec /\ d.by = 0 /\ d.age >= ReconnectTicks /\ TwoNames(d.inst)
               /\ ~Busy /\ sock[d.opp].st = "open" /\ sock[d.opp].peer = "up")
              => /\ <<"OPPONENT_TIMEOUT", d.inst>> \in SentTo(d.opp)
                 /\ games[KeyOf(d.inst)] = NoneRec

\* C4: when a supervisor has just cleaned up a match it ended by forfeit,
\* the connection of the player who stayed is in the lobby queue and the
\* connection that was lost is not.
C4_ForfeitRequeue ==
    \A j \in Insts :
        (actor = <<"sup", j>> /\ inst[j].st = "done" /\ inst[j].ended = "forfeit")
          => \A n \in Names :
                LET d == dropped[n]
                IN  (d # NoneRec /\ d.inst = j /\ d.by = 0 /\ TwoNames(j)
                       /\ sock[d.opp].st = "open" /\ sock[d.opp].peer = "up"
                       /\ dropped[UserOf(j, Other(SeatOf(j, n)))] = NoneRec)
                      => InQueue(d.opp) /\ ~InQueue(d.conn)

\* C5: when a supervisor has just cleaned up a match of two names that
\* ended with WIN and LOSE, the winner's connection is at the head of the
\* lobby queue and the loser's at its tail.
C5_WinnerAtHead ==
    \A j \in Insts : \A p \in {1, 2} :
        (actor = <<"sup", j>> /\ inst[j].st = "done" /\ inst[j].ended = "normal"
           /\ TwoNames(j)
           /\ <<"WIN", j>> \in sentBefore[ConnOf(j, p)]
           /\ <<"LOSE", j>> \in sentBefore[ConnOf(j, Other(p))])
          => /\ waiting_lines # <<>>
             /\ waiting_lines[1].conn = ConnOf(j, p)
             /\ waiting_lines[Len(waiting_lines)].conn = ConnOf(j, Other(p))

\* C6: a step of a supervisor, or of a thread it owns, that is taken after
\* a reconnect has stored the token of a new supervisor in the match state
\* leaves that match state and the lobby queue as they are.
Superseded(j) ==
    /\ inst[j].st \in {"loop", "join_superseded", "join_forfeit"}
    /\ games[KeyOf(j)] # NoneRec
    /\ games[KeyOf(j)].terminate_event # j
    /\ inst[games[KeyOf(j)].terminate_event].by # 0
StepOf(j) == actor' \in {<<"sup", j>>, <<"game", j>>, <<"place", j>>}
C6_SupersededWritesNothing ==
    [][\A j \in Insts :
         (Superseded(j) /\ StepOf(j))
           => /\ games'[KeyOf(j)] = games[KeyOf(j)]
              /\ waiting_lines' = waiting_lines]_vars

\* C7: no turn of the play phase outlasts its 30 s with both connections
\* open: a tick of the clock cannot pass on a turn whose player is silent.
C7_TurnClock ==
    \A j \in Insts :
        ~ /\ inst[j].gt = "play"
          /\ ~inst[j].event
          /\ inst[j].turn_age >= TurnTicks
          /\ \A p \in {1, 2} : sock[ConnOf(j, p)].st = "open" /\ sock[ConnOf(j, p)].peer = "up"
          /\ sock[ConnOf(j, inst[j].turn + 1)].inbox = <<>>

\* C8: a match that has sent WIN sends the other player, if still
\* connected, LOSE once, and sends neither player anything after WIN.
GameFrom(f, j) == f.typ = "GAME" /\ f.src = j
C8_NothingAfterWin ==
    \A j \in {i \in Insts : inst[i].st # "unused"} : \A p \in {1, 2} :
        LET w == ConnOf(j, p)
            l == ConnOf(j, Other(p))
            wins == {i \in DOMAIN emitted[w] : emitted[w][i].tag = "WIN" /\ GameFrom(emitted[w][i], j)}
        IN  /\ wins # {}
              => /\ \A i \in wins : \A k \in DOMAIN emitted[w] : k > i => ~GameFrom(emitted[w][k], j)
                 /\ (sock[l].st = "open" /\ sock[l].peer = "up")
                      => Cardinality({k \in DOMAIN emitted[l] : emitted[l][k].tag = "LOSE"
                                                               /\ GameFrom(emitted[l][k], j)}) = 1
            /\ <<"WIN", j>> \in sentBefore[w]
              => \A c \in {w, l} : \A k \in DOMAIN emitted[c] : ~GameFrom(emitted[c][k], j)

\* C9: the frames written to a connection carry the sequence numbers 0, 1,
\* 2, ... : the first is 0 and each later one is greater than the one before.
C9_SeqFromZeroIncreasing ==
    \A c \in Conns :
        LET ns == Numbered(emitted[c])
        IN  \A i \in DOMAIN ns :
                /\ (i = 1 /\ seqBefore[c] = -1) => ns[i].seq = 0
                /\ ns[i].seq > (IF i = 1 THEN seqBefore[c] ELSE ns[i - 1].seq + ns[i - 1].n - 1)

(***************************************************************************)
(* Properties of the frame codec                                           *)
(***************************************************************************)
\* C10: parsing the frame built from a sequence number, a type byte, a
\* payload and any nonce gives back that sequence number, type and payload.
C10_RoundTrip ==
    codec.stage = "parsed"
      => /\ codec.result.ok
         /\ codec.result.seq = codec.seq
         /\ codec.result.pkt_type = codec.pkt_type
         /\ codec.result.payload = codec.payload

\* a frame with the largest sequence number, the largest type byte and a
\* payload of the greatest length has been built and parsed
C10_Witness ==
    /\ codec.stage = "parsed"
    /\ codec.seq = <<65535, 65535>>
    /\ codec.pkt_type = 255
    /\ Len(codec.payload) = MaxPayloadLen
    /\ codec.nonce[1] # 0
    /\ codec.result.ok

(***************************************************************************)
(* Properties of error handling                                            *)
(***************************************************************************)
\* a thread of the server takes a frame with a bad checksum from connection c
TakesBad(c) ==
    /\ sock[c].inbox # <<>>
    /\ Head(sock[c].inbox) = BadPkt
    /\ sock'[c].inbox = <<>>
\* the server goes on serving connection c: it is open and either queued in
\* the lobby or marked connected in the state of a match
Served(c) ==
    /\ sock[c].st = "open"
    /\ \/ InQueue(c)
       \/ \E j \in Insts : \E p \in {1, 2} :
            /\ inst[j].st \notin {"unused", "done", "crashed"}
            /\ ConnOf(j, p) = c
            /\ games[KeyOf(j)] # NoneRec
            /\ games[KeyOf(j)].connected[UserOf(j, p)]

\* C11: a frame whose checksum does not match ends the service of its
\* connection in every state of the server: after the step that takes it,
\* the connection is neither queued in the lobby nor connected in a match.
C11_BadChecksumFatal ==
    [][\A c \in Conns : TakesBad(c) => ~Served(c)']_vars

\* the errors of parse_packet that are about the length of the buffer
LengthErrors == {"Packet too short", "Packet shorter than specified by header"}

\* C12: parse_packet rejects with a length error every buffer whose size is
\* not HEADER_SIZE + the declared length + CHECKSUM_SIZE, the longer ones
\* like the shorter ones.
C12_ExactSizeOnly ==
    codec.stage = "checked"
      => LET n == Len(codec.packet)
         IN  (n < HEADER_SIZE
                \/ n # HEADER_SIZE + UnpackU16(SubSeq(codec.packet, HEADER_SIZE - 1, HEADER_SIZE))
                         + CHECKSUM_SIZE)
               => /\ ~codec.result.ok
                  /\ codec.result.err \in LengthErrors

(***************************************************************************)
(* Properties of the play phase                                            *)
(***************************************************************************)
\* the game thread of call j takes a GAME payload from the player on turn
TakesLine(j) ==
    /\ inst[j].gt = "play"
    /\ ~inst[j].event
    /\ actor' = <<"game", j>>
    /\ sock[ConnOf(j, inst[j].turn + 1)].inbox # <<>>
    /\ Head(sock[ConnOf(j, inst[j].turn + 1)].inbox).type = PKT_TYPE_GAME
LineOf(j) == Head(sock[ConnOf(j, inst[j].turn + 1)].inbox).payload
IsQuit(msg) == Len(msg) = 1 /\ lower(msg[1]) = W_quit
WellFormedFire(msg) ==
    /\ parse_fire_message(msg).ok
    /\ parse_coordinate(parse_fire_message(msg).coord).ok
\* the cell of the opponent's board a well-formed FIRE names
CellFiredAt(j) ==
    LET pcd == parse_coordinate(parse_fire_message(LineOf(j)).coord)
    IN  GridAt(heap[BoardOf(j, Other(inst[j].turn + 1))].hidden_grid, pcd.row, pcd.col)
HasFrame(fs, j, tag) == \E i \in DOMAIN fs : fs[i].tag = tag /\ fs[i].src = j

\* C13: a GAME payload of the player on turn that is no well-formed FIRE
\* with a coordinate on the board is answered with ERROR, leaves both boards
\* and the turn as they are, and the match stays in play with that player
\* on turn.
C13_InvalidFireKeepsTurn ==
    [][\A j \in Insts :
         (TakesLine(j) /\ ~IsQuit(LineOf(j)) /\ ~WellFormedFire(LineOf(j)))
           => /\ HasFrame(emitted'[ConnOf(j, inst[j].turn + 1)], j, "ERROR")
              /\ heap' = heap
              /\ inst'[j].turn = inst[j].turn
              /\ inst'[j].gt = "play"]_vars

\* C14: a FIRE at a cell that is already hit or miss is answered with
\* RESULT ALREADY_SHOT and changes neither a board nor the turn nor the
\* count of moves of the match.
C14_RepeatedShotChangesNothing ==
    [][\A j \in Insts :
         (TakesLine(j) /\ WellFormedFire(LineOf(j)) /\ CellFiredAt(j) \in {"X", "o"})
           => /\ \E i \in DOMAIN emitted'[ConnOf(j, inst[j].turn + 1)] :
                   LET f == emitted'[ConnOf(j, inst[j].turn + 1)][i]
                   IN  f.tag = "RESULT" /\ f.src = j /\ f.arg[1] = "already_shot"
              /\ heap' = heap
              /\ inst'[j].turn = inst[j].turn
              /\ inst'[j].moves = inst[j].moves]_vars

CellsIn(board, mark) == {x \in DOMAIN board.hidden_grid : board.hidden_grid[x] = mark}

\* C15: the number in WIN is the number of shots the winner fired: when
\* every shot of the winner was a hit, it is the number of cells hit on the
\* loser's board, whatever the loser fired in between; the loser is sent LOSE.
C15_WinCountsWinnersShots ==
    \A j \in {i \in Insts : inst[i].st # "unused"} : \A p \in {1, 2} :
        \A i \in DOMAIN emitted[ConnOf(j, p)] :
            LET f == emitted[ConnOf(j, p)][i]
                loser == heap[BoardOf(j, Other(p))]
            IN  (f.tag = "WIN" /\ f.src = j /\ devs = 0 /\ CellsIn(loser, "o") = {})
                  => /\ f.arg = Cardinality(CellsIn(loser, "X"))
                     /\ HasFrame(emitted[ConnOf(j, Other(p))], j, "LOSE")

\* a board that holds each ship of SHIPS once, in order, on as many cells as
\* its size, inside the grid, no cell under two ships
FullFleet(board) ==
    LET ps == board.placed_ships
    IN  /\ Len(ps) = Len(SHIPS)
        /\ \A i \in DOMAIN ps :
              /\ ps[i].name = SHIPS[i].name
              /\ Cardinality(ps[i].positions) = SHIPS[i].size
              /\ ps[i].positions \subseteq (0..(board.size - 1)) \X (0..(board.size - 1))
              /\ \A k \in DOMAIN ps : i # k => ps[i].positions \cap ps[k].positions = {}

\* the players of every match sit in the order of their names, the order in
\* which a resumed match seats them
SeatedInOrder ==
    \A i \in Insts :
        inst[i].st # "unused" => NameIdx(inst[i].username1) < NameIdx(inst[i].username2)

\* C16: when a match announces ALL_SHIPS_PLACED, both of its boards hold the
\* whole fleet: every ship once, on distinct cells inside the grid, also
\* when a player left during placement and came back (here: in matches of
\* two names seated in the order of the names).
C16_FleetCompleteWhenAnnounced ==
    \A j \in Insts :
        (SeatedInOrder /\ \E c \in Conns : HasFrame(emitted[c], j, "ALL_SHIPS_PLACED"))
          => FullFleet(heap[inst[j].board1]) /\ FullFleet(heap[inst[j].board2])

\* the RESULT frames of match j in a batch of frames that report a hit
HitResults(fs, j) ==
    {i \in DOMAIN fs : fs[i].tag = "RESULT" /\ fs[i].src = j /\ fs[i].arg[1] = "hit"}

\* C17: in the play phase the hit cells of a board and the RESULT HIT frames
\* delivered to the player firing at it grow together: a step of the match
\* marks as many new hits on the board of the player not on turn as it
\* delivers RESULT HIT frames to the player on turn.
C17_HitsMatchResults ==
    [][\A j \in Insts :
         (actor' = <<"game", j>> /\ inst[j].gt = "play")
           => LET p == inst[j].turn + 1
                  b == BoardOf(j, Other(p))
              IN  Cardinality(CellsIn(heap'[b], "X"))
                    = Cardinality(CellsIn(heap[b], "X"))
                        + Cardinality(HitResults(emitted'[ConnOf(j, p)], j))]_vars

(***************************************************************************)
(* Properties of the lobby                                                 *)
(***************************************************************************)
\* C18: no two entries of the lobby queue carry the same display name.
C18_QueueNamesDistinct ==
    \A i \in DOMAIN waiting_lines : \A k \in DOMAIN waiting_lines :
        i # k => waiting_lines[i].username # waiting_lines[k].username

\* C19: a pass of the lobby starts a match only with two endpoints that are
\* still connected when its five seconds of lead time are over: a pass in
\* which a client of the head two has closed starts no match.
C19_PairsOnlyConnected ==
    [][\A j \in Insts :
         (actor' = <<"lobby", 0>> /\ inst[j].st = "unused" /\ inst'[j].st = "spawned")
           => \A c \in {inst'[j].conn1, inst'[j].conn2} :
                sock'[c].st = "open" /\ sock'[c].peer = "up"]_vars

\* the step of the lobby loop of c that takes a chat packet with some text
\* from the head of its input
TakesChat(c) ==
    /\ actor' = <<"mgr", c>>
    /\ mgr[c].pc = "lobby"
    /\ InQueue(c)
    /\ sock[c].inbox # <<>>
    /\ Head(sock[c].inbox).type = PKT_TYPE_CHAT
    /\ Head(sock[c].inbox).payload # <<>>
    /\ sock'[c].inbox = Tail(sock[c].inbox)

ChatFrame(c, t) == Frame("CHAT", <<mgr[c].username, t>>, 0, 1, "CHAT", 0)

InMatch(c) ==
    \E j \in Insts : inst[j].gt \in {"placing", "play"} /\ c \in {inst[j].conn1, inst[j].conn2}

\* a chat packet with some text waits at the head of the input of a player's
\* open connection
ChatWaits(c) ==
    /\ sock[c].st = "open"
    /\ sock[c].peer = "up"
    /\ sock[c].inbox # <<>>
    /\ Head(sock[c].inbox).type = PKT_TYPE_CHAT
    /\ Head(sock[c].inbox).payload # <<>>

\* C21: chat of a player in a match does not wait for a game event: when
\* every thread of the server is blocked, no chat packet with text is left
\* unread on the open connection of a player in a match (of two names
\* seated in the order of the names).
C21_MatchChatNotLeftWaiting ==
    \A c \in Conns : ~(SeatedInOrder /\ ChatWaits(c) /\ InMatch(c) /\ ~Busy)

(***************************************************************************)
(* Properties of placement                                                 *)
(***************************************************************************)
\* the placement thread of seat p of match j takes a line from its player
TakesPlace(j, p) ==
    /\ inst[j].gt = "placing"
    /\ inst[j].t[p] = "recv"
    /\ ~inst[j].event
    /\ inst[j].conn1 # inst[j].conn2
    /\ actor' = <<"place", j>>
    /\ sock[ConnOf(j, p)].inbox # <<>>
    /\ Head(sock[ConnOf(j, p)].inbox).type = PKT_TYPE_GAME
    /\ Head(sock[ConnOf(j, p)].inbox).payload # <<>>
    /\ sock'[ConnOf(j, p)].inbox = Tail(sock[ConnOf(j, p)].inbox)

\* a line that places ship number k on the board: keyword, ship name,
\* coordinate, orientation, free cells inside the grid
WellPlaced(line, board, k) ==
    /\ Len(line) = 4
    /\ lower(line[1]) = W_place
    /\ lower(line[4]) = lower(SHIPS[k + 1].name)
    /\ parse_coordinate(line[2]).ok
    /\ lower(line[3]) \in {W_h, W_v}
    /\ can_place_ship(board, parse_coordinate(line[2]).row, parse_coordinate(line[2]).col,
                      SHIPS[k + 1].size, IF lower(line[3]) = W_h THEN 0 ELSE 1)

PlaceErrors ==
    {"ERROR_FORMAT", "ERROR_COMMAND", "ERROR_SHIP", "ERROR_COORDINATE", "ERROR_ORIENTATION",
     "ERROR_CANNOT_PLACE"}

QuitBy(j) == \E c \in Conns : <<"BYE", j>> \in sentBefore[c] \cup Notable(emitted[c])
OwnsEntry(j) ==
    IF games[KeyOf(j)] = NoneRec THEN FALSE ELSE games[KeyOf(j)].terminate_event = j

Playing(n) ==
    \E j \in Insts :
        /\ inst[j].st = "loop" /\ inst[j].gt \in {"start", "placing", "play"}
        /\ OwnsEntry(j)
        /\ n \in {inst[j].username1, inst[j].username2}

\* C24: whenever the server is at rest (and the players of a match are two
\* names, seated in the order of the names), the in_game flag of every
\* registered name is true exactly when a match of the match map has that
\* name as one of its two players.
C24_InGameIffPlaying ==
    (~Busy /\ SeatedInOrder) => \A n \in Names :
                player_sessions[n] # NoneRec => (player_sessions[n].in_game <=> Playing(n))

(***************************************************************************)
(* Properties of the handshake                                             *)
(***************************************************************************)
\* game_manager of connection c takes the first packet
TakesHello(c) ==
    /\ mgr[c].pc = "handshake"
    /\ actor' = <<"mgr", c>>
    /\ sock[c].inbox # <<>>
\* connection c is in the session registry, the broadcast set or the queue
Admitted(c) ==
    \/ c \in active_connections
    \/ InQueue(c)
    \/ \E n \in Names : player_sessions[n] # NoneRec /\ player_sessions[n].conn = c

\* C25: a first packet that is no GAME packet USERNAME <name> with a name
\* gets no WELCOME, the connection is closed and game_manager returns
\* without adding it to the session registry, the broadcast set or the
\* queue, and it is in none of them at any later time; WELCOME is written
\* only in answer to a first packet USERNAME <name>.
C25_HandshakeGates ==
    /\ [][\A c \in Conns :
            TakesHello(c) =>
              IF Head(sock[c].inbox) \in Hellos
              THEN \A i \in DOMAIN emitted'[c] :
                      emitted'[c][i].tag = "WELCOME" => (i = 1 /\ mgr'[c].pc = "route")
              ELSE /\ sock'[c].st = "closed"
                   /\ mgr'[c].pc = "done"
                   /\ \A i \in DOMAIN emitted'[c] : emitted'[c][i].tag # "WELCOME"
                   /\ player_sessions' = player_sessions
                   /\ active_connections' = active_connections
                   /\ waiting_lines' = waiting_lines]_vars
    /\ [](\A c \in Conns : (mgr[c].pc = "done" /\ mgr[c].username = None) => ~Admitted(c))
    /\ [][\A c \in Conns :
            (\E i \in DOMAIN emitted'[c] : emitted'[c][i].tag = "WELCOME") => TakesHello(c)]_vars

C25_BadHelloRefused ==
    \E c \in Conns :
        /\ actor = <<"mgr", c>>
        /\ mgr[c].pc = "done" /\ mgr[c].username = None
        /\ sock[c].st = "closed"
        /\ Len(emitted[c]) = 1 /\ emitted[c][1].tag = "ERROR_USERNAME"
        /\ active_connections # {}

(***************************************************************************)
(* Properties of the rebuilt match                                         *)
(***************************************************************************)
\* the board a call of two_player_game binds to name n, and the name its
\* turn index t designates
NameBoard(rec, n) == IF rec.username1 = n THEN rec.board1 ELSE rec.board2
OnTurnName(rec, t) == IF t = 0 THEN rec.username1 ELSE rec.username2
\* the call of two_player_game that game_manager makes for a reconnect
\* starts its match
Rebuilds(j) ==
    /\ inst[j].st = "spawned"
    /\ inst[j].by # 0
    /\ inst[j].username1 # inst[j].username2
    /\ actor' = <<"sup", j>>
    /\ inst'[j].st = "loop"

\* C26: when a reconnect rebuilds a match, each of the two names is bound
\* to the board it had in the call that ran the match before, and the saved
\* turn index designates the name it designated there.
C26_BoardsFollowNames ==
    [][\A j \in Insts :
         Rebuilds(j) =>
           LET gs == games[KeyOf(j)]
               i == gs.terminate_event
           IN  /\ \A n \in {inst[j].username1, inst[j].username2} :
                      NameBoard(inst'[j], n) = NameBoard(inst[i], n)
               /\ OnTurnName(inst'[j], inst'[j].turn) = OnTurnName(inst[i], gs.turn)]_vars

(***************************************************************************)
(* Properties of the turn                                                  *)
(***************************************************************************)
\* the line taken is a FIRE at a cell of the board that was not fired at
Resolves(j) ==
    IF WellFormedFire(LineOf(j)) THEN CellFiredAt(j) \notin {"X", "o"} ELSE FALSE

\* C27: in the play phase (players seated in the order of their names) a
\* FIRE at a cell not yet fired at passes the turn to the other player
\* unless it sinks the last ship, and no other line of the player on turn
\* changes the turn.
C27_TurnFlipsOnResolvedShot ==
    [][\A j \in Insts :
         (TakesLine(j) /\ SeatedInOrder) =>
           IF Resolves(j)
           THEN \/ all_ships_sunk(heap'[BoardOf(j, Other(inst[j].turn + 1))])
                \/ inst'[j].turn = 1 - inst[j].turn
           ELSE inst'[j].turn = inst[j].turn]_vars

(***************************************************************************)
(* Properties of pairing                                                   *)
(***************************************************************************)
\* the calls of two_player_game lobby_manager has started that have not
\* returned
Started == {j \in Insts : inst[j].by = 0 /\ inst[j].st \in {"spawned", "loop"}}

\* C28: at no time are there two calls of two_player_game started by
\* lobby_manager that have not returned.
C28_OneMatchAtATime == Cardinality(Started) <= 1

(***************************************************************************)
(* Properties of the end of a match                                        *)
(***************************************************************************)
\* the supervisor of call j ends its match in this step
Ends(j) ==
    /\ actor' = <<"sup", j>>
    /\ inst[j].st # "done"
    /\ inst'[j].st = "done"
    /\ inst'[j].ended \in {"normal", "forfeit"}
\* the names the finally block of call j has to put back into the queue:
\* after a forfeit the players marked connected, otherwise both players,
\* in either case only with a socket the server has not closed
ToRequeue(j) ==
    LET gs == games[KeyOf(j)]
    IN  IF inst'[j].ended = "forfeit"
        THEN {u \in {inst[j].username1, inst[j].username2} :
                 IF gs.connected[u] THEN sock[gs.conns[u]].st # "closed" ELSE FALSE}
        ELSE {UserOf(j, p) : p \in {q \in {1, 2} : sock[ConnOf(j, q)].st # "closed"}}
\* a match of the match map whose supervisor has not run its finally block
Unfinished == \E j \in Insts : inst[j].st \in {"loop", "join_forfeit"} /\ OwnsEntry(j)

BoundAs(n) == {c \in Conns : mgr[c].username = n /\ mgr[c].pc \in {"call", "sup"}}

\* C30: of the connections that present the name of the one lost player of
\* a match, at most one is bound to that player's slot.
C30_OneRebind == \A n \in Names : Cardinality(BoundAs(n)) <= 1

(***************************************************************************)
(* Properties of what is written to a socket                               *)
(***************************************************************************)
\* C35: everything a step writes to a connection is a frame, GAME or CHAT,
\* never text without a frame around it.
C35_OnlyFramesWritten ==
    \A c \in Conns : \A i \in DOMAIN emitted[c] : emitted[c][i].typ \in {"GAME", "CHAT"}

(***************************************************************************)
(* Properties of the entries of the lobby queue                            *)
(***************************************************************************)
\* entry e of the queue is popped into a match by this step
Paired(e) ==
    \E j \in Insts : /\ inst[j].st = "unused"
                      /\ inst'[j].st = "spawned"
                      /\ e.conn \in {inst'[j].conn1, inst'[j].conn2}

\* C36: an entry leaves the lobby queue only in a step of lobby_manager
\* that pops it into a match or finds its socket closed, or in a step of the
\* lobby handler of its own connection; no other step removes it.
C36_LeavesByPairingOrClose ==
    [][\A i \in DOMAIN waiting_lines :
         LET e == waiting_lines[i]
         IN  \/ \E k \in DOMAIN waiting_lines' : waiting_lines'[k] = e
             \/ actor' = <<"lobby", 0>> /\ (Paired(e) \/ sock[e.conn].st = "closed")
             \/ actor' = <<"mgr", e.conn>>]_vars

\* C37: every entry of the lobby queue has a lobby handler running on its
\* connection: the game_manager of that connection is in its lobby loop
\* (here: with the players of every match two names seated in order).
C37_QueuedIsServed ==
    SeatedInOrder =>
        \A i \in DOMAIN waiting_lines : mgr[waiting_lines[i].conn].pc = "lobby"

(***************************************************************************)
(* Properties of the readers of a socket                                   *)
(***************************************************************************)
\* the game thread of call j is receiving from connection c: one of its
\* placement threads, or its play loop for the player on turn, and its
\* terminate event is not set
GameReads(j, c) ==
    /\ ~inst[j].event
    /\ \/ /\ inst[j].gt = "placing"
          /\ \E p \in {1, 2} : inst[j].t[p] = "recv" /\ ConnOf(j, p) = c
       \/ /\ inst[j].gt = "play"
          /\ ConnOf(j, inst[j].turn + 1) = c
\* the threads receiving from connection c: game threads, and the lobby
\* handler of c while c is queued
ReadersOf(c) ==
    {<<"game", j>> : j \in {i \in Insts : GameReads(i, c)}}
      \cup {<<"mgr", d>> : d \in {e \in {c} : mgr[e].pc = "lobby" /\ InQueue(e)}}

\* C32: at no time are two threads receiving from the same connection.
C32_SingleReader == \A c \in Conns : Cardinality(ReadersOf(c)) <= 1

(***************************************************************************)
(* Properties of the supervisor's cleanup                                  *)
(***************************************************************************)
\* the game thread of call j has ended and call j, not yet returned, still
\* finds its own terminate event in the match map
OwnerOfDead(j) ==
    /\ inst[j].st \in {"loop", "join_forfeit"}
    /\ ~GameThreadAlive(j)
    /\ OwnsEntry(j)

\* C38: the next step of a supervisor that owns the entry of its match and
\* whose game thread has ended removes the entry, sets the in_game flag of
\* both players to false, clears game_running and returns; and the server
\* never comes to rest with such a supervisor left.
C38_DeadThreadCleanedUp ==
    /\ [][\A j \in Insts :
            (OwnerOfDead(j) /\ actor' = <<"sup", j>>)
              => /\ inst'[j].st = "done"
                 /\ games'[KeyOf(j)] = NoneRec
                 /\ \A u \in {inst[j].username1, inst[j].username2} :
                        player_sessions'[u] # NoneRec => ~player_sessions'[u].in_game
                 /\ ~game_running']_vars
    /\ [](~Busy => \A j \in Insts : ~OwnerOfDead(j))
\* a match that was won has been cleaned up by its supervisor
C38_WonMatchCleanedUp ==
    \E j \in Insts :
        /\ actor = <<"sup", j>>
        /\ inst[j].st = "done"
        /\ \E c \in Conns : <<"WIN", j>> \in sentBefore[c]
        /\ games[KeyOf(j)] = NoneRec
        /\ ~game_running
        /\ \A u \in {inst[j].username1, inst[j].username2} :
               player_sessions[u] # NoneRec /\ ~player_sessions[u].in_game

\* call j has registered itself in the match map and has been replaced there
LostEntry(j) ==
    /\ inst[j].st \in {"loop", "join_superseded", "join_forfeit", "crashed"}
    /\ ~OwnsEntry(j)
\* the calls that have not returned and find their own event under key k
OwnersOf(k) ==
    {j \in Insts : inst[j].st \notin {"unused", "done"} /\ KeyOf(j) = k /\ OwnsEntry(j)}

C33_EventCancelsReceives ==
    /\ [][\A j \in Insts :
            (inst[j].event /\ actor' \in {<<"game", j>>, <<"place", j>>})
              => /\ heap' = heap
                 /\ \A c \in Conns : sock'[c].inbox = sock[c].inbox]_vars
    /\ [](~Busy => \A j \in Insts : inst[j].event => ~GameThreadAlive(j))
\* a placement thread has returned from a receive on a connection that is
\* open, has a live peer and nothing to read: the receive was cancelled
C33_CancelledWhileWaiting ==
    \E j \in Insts :
        /\ actor = <<"place", j>>
        /\ inst[j].event
        /\ \A p \in {1, 2} : inst[j].t[p] = "ret"
        /\ \E p \in {1, 2} : /\ sock[ConnOf(j, p)].st = "open"
                              /\ sock[ConnOf(j, p)].peer = "up"
                              /\ sock[ConnOf(j, p)].inbox = <<>>

(***************************************************************************)
(* Properties of a board                                                   *)
(***************************************************************************)
\* the cells of the grid that have been shot at
Shot(board) == {x \in DOMAIN board.hidden_grid : board.hidden_grid[x] \in {"X", "o"}}
\* the remaining sets of the ships are pairwise disjoint and are together
\* the cells marked 'S'
ShipsApart(board) ==
    /\ \A i, k \in DOMAIN board.placed_ships :
          i # k => board.placed_ships[i].positions \cap board.placed_ships[k].positions = {}
    /\ \A x \in DOMAIN board.hidden_grid :
          board.hidden_grid[x] = "S" <=> \E i \in DOMAIN board.placed_ships :
                                           x \in board.placed_ships[i].positions
    /\ \A i \in DOMAIN board.placed_ships :
          board.placed_ships[i].positions \subseteq DOMAIN board.hidden_grid
\* a placement that can_place_ship allows takes cells no ship ever had,
\* records exactly these cells and leaves every other cell and ship alone
PlacesForward(board, row, col, ship, orientation) ==
    LET after == do_place_ship(board, row, col, ship.size, orientation, ship.name)
        n == Len(board.placed_ships)
        cells == after.placed_ships[n + 1].positions
    IN  /\ Len(after.placed_ships) = n + 1
        /\ Cardinality(cells) = ship.size
        /\ cells \cap DOMAIN board.hidden_grid = {}
        /\ \A x \in cells : x[1] \in 0..(board.size - 1) /\ x[2] \in 0..(board.size - 1)
        /\ \A x \in DOMAIN board.hidden_grid : after.hidden_grid[x] = board.hidden_grid[x]
        /\ \A i \in 1..n : after.placed_ships[i] = board.placed_ships[i]
\* a shot leaves the cells shot before as they are, takes the cell of a ship
\* from exactly one remaining set and nothing else from any, and names a
\* sunk ship exactly when it empties the remaining set of that ship
FiresForward(board, row, col) ==
    LET fr == fire_at(board, row, col)
        after == fr.board
        cell == <<row, col>>
        losers == {i \in DOMAIN board.placed_ships :
                     after.placed_ships[i].positions # board.placed_ships[i].positions}
    IN  /\ \A x \in Shot(board) : after.hidden_grid[x] = board.hidden_grid[x]
        /\ cell \in Shot(after)
        /\ DOMAIN after.placed_ships = DOMAIN board.placed_ships
        /\ \A i \in DOMAIN board.placed_ships :
              /\ after.placed_ships[i].name = board.placed_ships[i].name
              /\ after.placed_ships[i].positions \subseteq board.placed_ships[i].positions
        /\ IF GridAt(board.hidden_grid, row, col) = "S"
           THEN /\ fr.result = "hit"
                /\ Cardinality(losers) = 1
                /\ \A i \in losers :
                      /\ cell \in board.placed_ships[i].positions
                      /\ after.placed_ships[i].positions = board.placed_ships[i].positions \ {cell}
                      /\ fr.sunk_name # NoName <=> after.placed_ships[i].positions = {}
                      /\ fr.sunk_name # NoName => fr.sunk_name = board.placed_ships[i].name
           ELSE /\ losers = {}
                /\ fr.sunk_name = NoName
                /\ fr.result = IF cell \in Shot(board) THEN "already_shot" ELSE "miss"

\* C34: on every board that placements and shots lead to, no two ships share
\* a cell, every placement the board allows and every shot moves the cells
\* forward only: a cell that is hit or miss stays as it is, a shot on a ship
\* cell takes exactly that cell from exactly one remaining set, remaining
\* sets only shrink from the cells the ship was placed on, and a shot names
\* a sunk ship exactly when it empties that ship's remaining set.
C34_CellsMoveForward ==
    /\ ShipsApart(heap[1])
    /\ \A at \in BoardPlaceAt, orientation \in {0, 1}, k \in DOMAIN SHIPS :
          can_place_ship(heap[1], at[1], at[2], SHIPS[k].size, orientation)
            => PlacesForward(heap[1], at[1], at[2], SHIPS[k], orientation)
    /\ \A at \in BoardShotAt : FiresForward(heap[1], at[1], at[2])
\* a board with the whole fleet placed, one ship sunk, another hit and not
\* sunk, and a miss
C34_SunkHitAndMiss ==
    LET board == heap[1]
    IN  /\ Len(board.placed_ships) = Len(SHIPS)
        /\ \E i, k \in DOMAIN board.placed_ships :
              /\ board.placed_ships[i].positions = {}
              /\ board.placed_ships[k].positions # {}
              /\ Cardinality(board.placed_ships[k].positions) < SHIPS[k].size
        /\ \E x \in DOMAIN board.hidden_grid : board.hidden_grid[x] = "o"

(***************************************************************************)
(* Properties of single-player mode                                        *)
(***************************************************************************)
\* C40: a step of the single-player game that takes a GAME packet with a
\* command in it from a connection whose client is there writes an answer
\* to that connection: RESULT, ERROR, WIN or BYE.
C40_EachCommandAnswered ==
    [][\A c \in Conns :
         (/\ actor' = <<"single", c>>
          /\ sock[c].peer = "up"
          /\ sock[c].inbox # <<>>
          /\ sock'[c].inbox = Tail(sock[c].inbox)
          /\ IF sock[c].inbox # <<>>
             THEN Head(sock[c].inbox).type = PKT_TYPE_GAME /\ Head(sock[c].inbox).payload # <<>>
             ELSE FALSE)
           => \E i \in DOMAIN emitted'[c] :
                 emitted'[c][i].tag \in {"RESULT", "ERROR", "WIN", "BYE"}]_vars

(***************************************************************************)
(* Properties of concurrent writes                                         *)
(***************************************************************************)
\* C31: at no time are two threads inside sendall on the same connection.
C31_SendsSerialized ==
    \A p, q \in {1, 2} :
        (p # q /\ codec.in_sendall[p] # 0) => codec.in_sendall[p] # codec.in_sendall[q]

====
